---- MODULE Spec2Model ----
(***************************************************************************)
(* Streaming indicator engine and confluence scorer of the free-weight     *)
(* strategy bot: EMA / RSI / MACD / ATR indicators, the open-interest and  *)
(* funding-rate analyzers, and StrategyEngine (update_kline,               *)
(* update_ticker, update_batch, evaluate).                                 *)
(*                                                                         *)
(* Python floats are modelled as exact rationals [n, d] with d > 0 in      *)
(* lowest terms; float('nan') is the value with d = 0 and every ordered    *)
(* comparison with it is false, as in IEEE arithmetic; None is a value of  *)
(* its own.  Indices are 1-based here and 0-based in the source.           *)
(***************************************************************************)
EXTENDS Integers, Sequences, FiniteSets, TLC

\* ------------------------------------------------------------------------
\* Bounds of the model (scaled stand-ins for the configured values)
\* ------------------------------------------------------------------------
HistoryCap == 4        \* the indicators' cap on retained inputs (500 in the source)
MaxUpdates == 6        \* inputs driven into one stand-alone indicator
MaxBatch == 5          \* longest list handed to an indicator's update_batch
MaxKlines == 4         \* klines fed to one symbol of the engine
MaxTickers == 2        \* tickers fed to one symbol of the engine
MaxOiInputs == 5       \* prices driven into a stand-alone OI analyzer
MaxOiReadings == 4     \* open-interest readings driven into it
MaxFundingInputs == 5  \* funding rates driven into a stand-alone funding analyzer

\* ------------------------------------------------------------------------
\* Numbers
\* ------------------------------------------------------------------------
Abs(x) == IF x < 0 THEN -x ELSE x

RECURSIVE GCD(_, _)
GCD(a, b) == IF b = 0 THEN a ELSE GCD(b, a % b)

NaN == [n |-> 0, d |-> 0]
None == [n |-> 0, d |-> -1]

IsNaN(x) == x.d = 0
IsNone(x) == x.d = -1
IsNum(x) == x.d > 0

\* the rational num/den (den # 0) in lowest terms with a positive denominator
Frac(num, den) ==
    LET g == GCD(Abs(num), Abs(den))
        s == IF den < 0 THEN -1 ELSE 1
    IN [n |-> s * (num \div g), d |-> s * (den \div g)]

R(i) == [n |-> i, d |-> 1]

Add(a, b) == IF IsNaN(a) \/ IsNaN(b) THEN NaN ELSE Frac(a.n * b.d + b.n * a.d, a.d * b.d)
Sub(a, b) == IF IsNaN(a) \/ IsNaN(b) THEN NaN ELSE Frac(a.n * b.d - b.n * a.d, a.d * b.d)
Mul(a, b) == IF IsNaN(a) \/ IsNaN(b) THEN NaN ELSE Frac(a.n * b.n, a.d * b.d)
\* only used where the source has checked the divisor to be non-zero
Div(a, b) == IF IsNaN(a) \/ IsNaN(b) THEN NaN ELSE Frac(a.n * b.d, a.d * b.n)

Lt(a, b) == IsNum(a) /\ IsNum(b) /\ a.n * b.d < b.n * a.d
Le(a, b) == IsNum(a) /\ IsNum(b) /\ a.n * b.d <= b.n * a.d
Gt(a, b) == Lt(b, a)
Ge(a, b) == Le(b, a)

AbsR(a) == IF IsNaN(a) THEN NaN ELSE [n |-> Abs(a.n), d |-> a.d]
\* Python's max(x, y, ...) keeps the first argument unless a later one is greater
Max2(a, b) == IF Gt(b, a) THEN b ELSE a
Min2(a, b) == IF Lt(b, a) THEN b ELSE a

RECURSIVE SumR(_)
SumR(s) == IF s = <<>> THEN R(0) ELSE Add(s[1], SumR(Tail(s)))

NaNs(k) == [i \in 1..k |-> NaN]

\* Python's seq[:k] and seq[-k:] (k >= 1)
Prefix(s, k) == SubSeq(s, 1, IF k < Len(s) THEN k ELSE Len(s))
LastN(s, k) == IF Len(s) <= k THEN s ELSE SubSeq(s, Len(s) - k + 1, Len(s))
Last(s) == s[Len(s)]

\* ------------------------------------------------------------------------
\* EMA  (src/indicators/ema.py)
\* ------------------------------------------------------------------------
RECURSIVE EmaExtend(_, _, _, _)
EmaExtend(prices, mult, i, acc) ==
    IF i > Len(prices) THEN acc
    ELSE EmaExtend(prices, mult, i + 1,
                   Append(acc, Add(Mul(Sub(prices[i], Last(acc)), mult), Last(acc))))

\* variant: the recurrence is seeded with the period-th price instead of the average
calculate_ema_seeded_by_price(prices, period) ==
    IF Len(prices) < period THEN NaNs(Len(prices))
    ELSE LET multiplier == Frac(2, period + 1)
         IN EmaExtend(prices, multiplier, period + 1, Append(NaNs(period - 1), prices[period]))

calculate_ema(prices, period) ==
    IF Len(prices) < period THEN NaNs(Len(prices))
    ELSE LET multiplier == Frac(2, period + 1)
             sma == Div(SumR(Prefix(prices, period)), R(period))
         IN EmaExtend(prices, multiplier, period + 1, Append(NaNs(period - 1), sma))

\* configured periods (IndicatorsConfig), scaled down with the history cap
EmaFast == 2
EmaSlow == 3
RsiPeriod == 2
MacdFast == 2
MacdSlow == 3
MacdSignal == 2
AtrPeriod == 2

\* RSI thresholds (RSIConfig) and the fixed mid-line of the hysteresis tests
RsiOversold == 30
RsiOverbought == 70
RsiMid == 50

EMAIndicator ==
    [prices |-> <<>>, fast_ema |-> <<>>, slow_ema |-> <<>>,
     prev_fast |-> None, prev_slow |-> None]

\* variant: the previous values are taken after the recalculation
EMA_update_prev_after(e, price) ==
    LET prices1 == Append(e.prices, price)
        f == calculate_ema(prices1, EmaFast)
        s == calculate_ema(prices1, EmaSlow)
    IN IF Len(prices1) > HistoryCap
       THEN [prices |-> LastN(prices1, HistoryCap), fast_ema |-> LastN(f, HistoryCap),
             slow_ema |-> LastN(s, HistoryCap), prev_fast |-> Last(f), prev_slow |-> Last(s)]
       ELSE [prices |-> prices1, fast_ema |-> f, slow_ema |-> s,
             prev_fast |-> Last(f), prev_slow |-> Last(s)]

EMA_update(e, price) ==
    LET prices1 == Append(e.prices, price)
        pf == IF e.fast_ema # <<>> THEN Last(e.fast_ema) ELSE e.prev_fast
        ps == IF e.slow_ema # <<>> THEN Last(e.slow_ema) ELSE e.prev_slow
        f == calculate_ema(prices1, EmaFast)
        s == calculate_ema(prices1, EmaSlow)
    IN IF Len(prices1) > HistoryCap
       THEN [prices |-> LastN(prices1, HistoryCap), fast_ema |-> LastN(f, HistoryCap),
             slow_ema |-> LastN(s, HistoryCap), prev_fast |-> pf, prev_slow |-> ps]
       ELSE [prices |-> prices1, fast_ema |-> f, slow_ema |-> s,
             prev_fast |-> pf, prev_slow |-> ps]

EMA_update_batch(e, prices) ==
    LET kept == LastN(prices, HistoryCap)
    IN [e EXCEPT !.prices = kept,
                 !.fast_ema = calculate_ema(kept, EmaFast),
                 !.slow_ema = calculate_ema(kept, EmaSlow)]

\* the value properties: the last derived entry, or None when absent or NaN
CurrentOf(series) ==
    IF series # <<>> /\ ~IsNaN(Last(series)) THEN Last(series) ELSE None

EMA_fast_value(e) == CurrentOf(e.fast_ema)
EMA_slow_value(e) == CurrentOf(e.slow_ema)

\* variant: the comparison is the other way round
EMA_is_bullish_slow_above(e) ==
    IF IsNone(EMA_fast_value(e)) \/ IsNone(EMA_slow_value(e)) THEN FALSE
    ELSE Gt(EMA_slow_value(e), EMA_fast_value(e))

EMA_is_bullish(e) ==
    IF IsNone(EMA_fast_value(e)) \/ IsNone(EMA_slow_value(e)) THEN FALSE
    ELSE Gt(EMA_fast_value(e), EMA_slow_value(e))

EMA_is_bearish(e) ==
    IF IsNone(EMA_fast_value(e)) \/ IsNone(EMA_slow_value(e)) THEN FALSE
    ELSE Lt(EMA_fast_value(e), EMA_slow_value(e))

EMA_is_bullish_crossover(e) ==
    IF IsNone(e.prev_fast) \/ IsNone(e.prev_slow)
       \/ IsNone(EMA_fast_value(e)) \/ IsNone(EMA_slow_value(e)) THEN FALSE
    ELSE Le(e.prev_fast, e.prev_slow) /\ Gt(EMA_fast_value(e), EMA_slow_value(e))

EMA_is_bearish_crossover(e) ==
    IF IsNone(e.prev_fast) \/ IsNone(e.prev_slow)
       \/ IsNone(EMA_fast_value(e)) \/ IsNone(EMA_slow_value(e)) THEN FALSE
    ELSE Ge(e.prev_fast, e.prev_slow) /\ Lt(EMA_fast_value(e), EMA_slow_value(e))

EMA_is_ready(e) == ~IsNone(EMA_fast_value(e)) /\ ~IsNone(EMA_slow_value(e))

\* ------------------------------------------------------------------------
\* RSI  (src/indicators/rsi.py)
\* ------------------------------------------------------------------------
Changes(prices) == [i \in 1..(Len(prices) - 1) |-> Sub(prices[i + 1], prices[i])]
Gains(changes) == [i \in 1..Len(changes) |-> IF Gt(changes[i], R(0)) THEN changes[i] ELSE R(0)]
Losses(changes) == [i \in 1..Len(changes) |-> IF Lt(changes[i], R(0)) THEN AbsR(changes[i]) ELSE R(0)]

\* variant: a zero average loss is reported as 0
RsiOf_zero_loss_is_zero(avg_gain, avg_loss) ==
    IF avg_loss = R(0) THEN R(0)
    ELSE Sub(R(100), Div(R(100), Add(R(1), Div(avg_gain, avg_loss))))

RsiOf(avg_gain, avg_loss) ==
    IF avg_loss = R(0) THEN R(100)
    ELSE Sub(R(100), Div(R(100), Add(R(1), Div(avg_gain, avg_loss))))

RECURSIVE RsiExtend(_, _, _, _, _, _, _)
RsiExtend(gains, losses, period, i, avg_gain, avg_loss, acc) ==
    IF i > Len(gains) THEN acc
    ELSE LET ag == Div(Add(Mul(avg_gain, R(period - 1)), gains[i]), R(period))
             al == Div(Add(Mul(avg_loss, R(period - 1)), losses[i]), R(period))
         IN RsiExtend(gains, losses, period, i + 1, ag, al, Append(acc, RsiOf(ag, al)))

calculate_rsi(prices, period) ==
    IF Len(prices) < period + 1 THEN NaNs(Len(prices))
    ELSE LET gains == Gains(Changes(prices))
             losses == Losses(Changes(prices))
             avg_gain == Div(SumR(Prefix(gains, period)), R(period))
             avg_loss == Div(SumR(Prefix(losses, period)), R(period))
         IN RsiExtend(gains, losses, period, period + 1, avg_gain, avg_loss,
                      Append(NaNs(period), RsiOf(avg_gain, avg_loss)))

RSIIndicator == [prices |-> <<>>, rsi_values |-> <<>>, prev_rsi |-> None]

\* variant: the previous value is taken after the recalculation
RSI_update_prev_after(r, price) ==
    LET prices1 == Append(r.prices, price)
        v == calculate_rsi(prices1, RsiPeriod)
        prev == IF v # <<>> /\ ~IsNaN(Last(v)) THEN Last(v) ELSE r.prev_rsi
    IN IF Len(prices1) > HistoryCap
       THEN [prices |-> LastN(prices1, HistoryCap), rsi_values |-> LastN(v, HistoryCap),
             prev_rsi |-> prev]
       ELSE [prices |-> prices1, rsi_values |-> v, prev_rsi |-> prev]

RSI_update(r, price) ==
    LET prices1 == Append(r.prices, price)
        prev == IF r.rsi_values # <<>> /\ ~IsNaN(Last(r.rsi_values))
                THEN Last(r.rsi_values) ELSE r.prev_rsi
        v == calculate_rsi(prices1, RsiPeriod)
    IN IF Len(prices1) > HistoryCap
       THEN [prices |-> LastN(prices1, HistoryCap), rsi_values |-> LastN(v, HistoryCap),
             prev_rsi |-> prev]
       ELSE [prices |-> prices1, rsi_values |-> v, prev_rsi |-> prev]

RSI_update_batch(r, prices) ==
    LET kept == LastN(prices, HistoryCap)
    IN [r EXCEPT !.prices = kept, !.rsi_values = calculate_rsi(kept, RsiPeriod)]

RSI_value(r) == CurrentOf(r.rsi_values)

RSI_is_oversold(r) == ~IsNone(RSI_value(r)) /\ Lt(RSI_value(r), R(RsiOversold))
RSI_is_overbought(r) == ~IsNone(RSI_value(r)) /\ Gt(RSI_value(r), R(RsiOverbought))

RSI_is_recovering_from_oversold(r) ==
    IF IsNone(RSI_value(r)) \/ IsNone(r.prev_rsi) THEN FALSE
    ELSE /\ Lt(r.prev_rsi, R(RsiOversold))
         /\ Gt(RSI_value(r), r.prev_rsi)
         /\ Lt(RSI_value(r), R(RsiMid))

RSI_is_falling_from_overbought(r) ==
    IF IsNone(RSI_value(r)) \/ IsNone(r.prev_rsi) THEN FALSE
    ELSE /\ Gt(r.prev_rsi, R(RsiOverbought))
         /\ Lt(RSI_value(r), r.prev_rsi)
         /\ Gt(RSI_value(r), R(RsiMid))

RSI_is_ready(r) == ~IsNone(RSI_value(r))

\* ------------------------------------------------------------------------
\* MACD  (src/indicators/macd.py)
\* ------------------------------------------------------------------------
\* element-wise a - b, NaN where either side is NaN
Minus(a, b) == [i \in 1..Len(a) |-> IF IsNaN(a[i]) \/ IsNaN(b[i]) THEN NaN ELSE Sub(a[i], b[i])]

\* [m for m in macd_line if m == m]
Valid(series) == SelectSeq(series, LAMBDA m : ~IsNaN(m))

\* variant: the signal line is smoothed over the whole MACD line, warm-up included
calculate_macd_unfiltered(prices, fast_period, slow_period, signal_period) ==
    IF Len(prices) < slow_period
    THEN [macd_line |-> NaNs(Len(prices)), signal_line |-> NaNs(Len(prices)),
          histogram |-> NaNs(Len(prices))]
    ELSE LET fast_ema == calculate_ema(prices, fast_period)
             slow_ema == calculate_ema(prices, slow_period)
             macd_line == Minus(fast_ema, slow_ema)
             signal_line == calculate_ema(macd_line, signal_period)
         IN [macd_line |-> macd_line, signal_line |-> signal_line,
             histogram |-> Minus(macd_line, signal_line)]

calculate_macd(prices, fast_period, slow_period, signal_period) ==
    IF Len(prices) < slow_period
    THEN [macd_line |-> NaNs(Len(prices)), signal_line |-> NaNs(Len(prices)),
          histogram |-> NaNs(Len(prices))]
    ELSE LET fast_ema == calculate_ema(prices, fast_period)
             slow_ema == calculate_ema(prices, slow_period)
             macd_line == Minus(fast_ema, slow_ema)
             valid_macd == Valid(macd_line)
             signal_line == NaNs(Len(macd_line) - Len(valid_macd))
                                \o calculate_ema(valid_macd, signal_period)
         IN [macd_line |-> macd_line, signal_line |-> signal_line,
             histogram |-> Minus(macd_line, signal_line)]

MACDIndicator ==
    [prices |-> <<>>, macd_line |-> <<>>, signal_line |-> <<>>, histogram |-> <<>>,
     prev_macd |-> None, prev_signal |-> None, prev_histogram |-> None]

\* "store previous values": only a defined last entry replaces the stored one
Remember(series, prev) ==
    IF series # <<>> /\ ~IsNaN(Last(series)) THEN Last(series) ELSE prev

\* variant: past the cap the lists are started afresh from the new price
MACD_update_clears(m, price) ==
    LET prices1 == Append(m.prices, price)
        kept == IF Len(prices1) > HistoryCap THEN <<price>> ELSE prices1
        c == calculate_macd(kept, MacdFast, MacdSlow, MacdSignal)
    IN [prices |-> kept,
        macd_line |-> c.macd_line,
        signal_line |-> c.signal_line,
        histogram |-> c.histogram,
        prev_macd |-> Remember(m.macd_line, m.prev_macd),
        prev_signal |-> Remember(m.signal_line, m.prev_signal),
        prev_histogram |-> Remember(m.histogram, m.prev_histogram)]

MACD_update(m, price) ==
    LET prices1 == Append(m.prices, price)
        c == calculate_macd(prices1, MacdFast, MacdSlow, MacdSignal)
        trim == Len(prices1) > HistoryCap
        Keep(s) == IF trim THEN LastN(s, HistoryCap) ELSE s
    IN [prices |-> Keep(prices1),
        macd_line |-> Keep(c.macd_line),
        signal_line |-> Keep(c.signal_line),
        histogram |-> Keep(c.histogram),
        prev_macd |-> Remember(m.macd_line, m.prev_macd),
        prev_signal |-> Remember(m.signal_line, m.prev_signal),
        prev_histogram |-> Remember(m.histogram, m.prev_histogram)]

MACD_update_batch(m, prices) ==
    LET kept == LastN(prices, HistoryCap)
        c == calculate_macd(kept, MacdFast, MacdSlow, MacdSignal)
    IN [m EXCEPT !.prices = kept, !.macd_line = c.macd_line,
                 !.signal_line = c.signal_line, !.histogram = c.histogram]

MACD_macd(m) == CurrentOf(m.macd_line)
MACD_signal(m) == CurrentOf(m.signal_line)
MACD_histogram(m) == CurrentOf(m.histogram)

MACD_is_bullish(m) ==
    ~IsNone(MACD_macd(m)) /\ ~IsNone(MACD_signal(m)) /\ Gt(MACD_macd(m), MACD_signal(m))

MACD_is_bearish(m) ==
    ~IsNone(MACD_macd(m)) /\ ~IsNone(MACD_signal(m)) /\ Lt(MACD_macd(m), MACD_signal(m))

MACD_is_bullish_crossover(m) ==
    IF IsNone(m.prev_macd) \/ IsNone(m.prev_signal)
       \/ IsNone(MACD_macd(m)) \/ IsNone(MACD_signal(m)) THEN FALSE
    ELSE Le(m.prev_macd, m.prev_signal) /\ Gt(MACD_macd(m), MACD_signal(m))

MACD_is_histogram_rising(m) ==
    IF IsNone(MACD_histogram(m)) \/ IsNone(m.prev_histogram) THEN FALSE
    ELSE Gt(MACD_histogram(m), m.prev_histogram)

MACD_is_ready(m) == ~IsNone(MACD_macd(m)) /\ ~IsNone(MACD_signal(m))

\* ------------------------------------------------------------------------
\* ATR  (src/indicators/atr.py)
\* ------------------------------------------------------------------------
\* calculate_true_range raises ValueError on lists of different lengths
TrueRangeRaises(highs, lows, closes) ==
    Len(highs) # Len(lows) \/ Len(lows) # Len(closes)

\* the value returned when it does not raise
calculate_true_range(highs, lows, closes) ==
    [i \in 1..Len(highs) |->
        IF i = 1 THEN Sub(highs[1], lows[1])
        ELSE Max2(Max2(Sub(highs[i], lows[i]),
                       AbsR(Sub(highs[i], closes[i - 1]))),
                  AbsR(Sub(lows[i], closes[i - 1])))]

RECURSIVE AtrExtend(_, _, _, _)
AtrExtend(tr_values, period, i, acc) ==
    IF i > Len(tr_values) THEN acc
    ELSE AtrExtend(tr_values, period, i + 1,
                   Append(acc, Div(Add(Mul(Last(acc), R(period - 1)), tr_values[i]),
                                   R(period))))

calculate_atr(highs, lows, closes, period) ==
    LET tr_values == calculate_true_range(highs, lows, closes)
    IN IF Len(tr_values) < period THEN NaNs(Len(tr_values))
       ELSE LET first_atr == Div(SumR(Prefix(tr_values, period)), R(period))
            IN AtrExtend(tr_values, period, period + 1,
                         Append(NaNs(period - 1), first_atr))

ATRIndicator == [highs |-> <<>>, lows |-> <<>>, closes |-> <<>>, atr_values |-> <<>>]

\* When calculate_atr raises, the three appends have happened and neither the
\* assignment of _atr_values nor the trimming is reached.
ATR_update(a, high, low, close) ==
    LET highs1 == Append(a.highs, high)
        lows1 == Append(a.lows, low)
        closes1 == Append(a.closes, close)
        v == calculate_atr(highs1, lows1, closes1, AtrPeriod)
    IN IF TrueRangeRaises(highs1, lows1, closes1)
       THEN [highs |-> highs1, lows |-> lows1, closes |-> closes1,
             atr_values |-> a.atr_values]
       ELSE IF Len(highs1) > HistoryCap
       THEN [highs |-> LastN(highs1, HistoryCap), lows |-> LastN(lows1, HistoryCap),
             closes |-> LastN(closes1, HistoryCap), atr_values |-> LastN(v, HistoryCap)]
       ELSE [highs |-> highs1, lows |-> lows1, closes |-> closes1, atr_values |-> v]

ATR_update_raises(a) ==
    TrueRangeRaises(Append(a.highs, R(0)), Append(a.lows, R(0)), Append(a.closes, R(0)))

\* The three raw lists are assigned before calculate_atr is called.
ATR_update_batch(a, highs, lows, closes) ==
    LET h == LastN(highs, HistoryCap)
        l == LastN(lows, HistoryCap)
        c == LastN(closes, HistoryCap)
    IN [highs |-> h, lows |-> l, closes |-> c,
        atr_values |-> IF TrueRangeRaises(h, l, c) THEN a.atr_values
                       ELSE calculate_atr(h, l, c, AtrPeriod)]

ATR_update_batch_raises(highs, lows, closes) ==
    TrueRangeRaises(LastN(highs, HistoryCap), LastN(lows, HistoryCap),
                    LastN(closes, HistoryCap))

ATR_value(a) == CurrentOf(a.atr_values)

\* variant: an undefined ATR counts as a distance of 0
ATR_get_stoploss_distance_zero(a, multiplier) ==
    IF IsNone(ATR_value(a)) THEN R(0) ELSE Mul(ATR_value(a), multiplier)

ATR_get_stoploss_distance(a, multiplier) ==
    IF IsNone(ATR_value(a)) THEN None ELSE Mul(ATR_value(a), multiplier)

\* side.upper() over the spellings a side is passed in
Upper(side) ==
    CASE side \in {"LONG", "long", "Long"} -> "LONG"
      [] side \in {"SHORT", "short", "Short"} -> "SHORT"
      [] OTHER -> side

\* variant: the distance is added for a LONG and subtracted for a SHORT
ATR_calculate_stoploss_sides_swapped(a, entry_price, side, multiplier) ==
    LET distance == ATR_get_stoploss_distance(a, multiplier)
    IN IF IsNone(distance) THEN None
       ELSE IF Upper(side) = "LONG" THEN Add(entry_price, distance)
       ELSE Sub(entry_price, distance)

ATR_calculate_stoploss(a, entry_price, side, multiplier) ==
    LET distance == ATR_get_stoploss_distance(a, multiplier)
    IN IF IsNone(distance) THEN None
       ELSE IF Upper(side) = "LONG" THEN Sub(entry_price, distance)
       ELSE Add(entry_price, distance)

\* variant: the target is placed at the stop-loss distance, whatever the ratio
ATR_calculate_takeprofit_at_distance(a, entry_price, side, risk_reward, sl_multiplier) ==
    LET distance == ATR_get_stoploss_distance(a, sl_multiplier)
    IN IF IsNone(distance) THEN None
       ELSE IF Upper(side) = "LONG" THEN Add(entry_price, distance)
       ELSE Sub(entry_price, distance)

ATR_calculate_takeprofit(a, entry_price, side, risk_reward, sl_multiplier) ==
    LET distance == ATR_get_stoploss_distance(a, sl_multiplier)
    IN IF IsNone(distance) THEN None
       ELSE IF Upper(side) = "LONG" THEN Add(entry_price, Mul(distance, risk_reward))
       ELSE Sub(entry_price, Mul(distance, risk_reward))

ATR_is_ready(a) == ~IsNone(ATR_value(a))

\* ------------------------------------------------------------------------
\* Market-structure analyzers  (src/market_data)
\* ------------------------------------------------------------------------
\* A z-score is carried as sign(z) * z^2, which is rational: statistics.mean
\* and statistics.stdev are exact up to the final square root, and z > k
\* (k >= 0) holds exactly when sign(z) * z^2 > k^2.
\* variant: the z-score is taken over however many readings are held
ZScoreSq_without_length_guard(history, lookback_period) ==
    LET recent == LastN(history, lookback_period)
        n == Len(recent)
    IN IF n < 2 THEN R(0)
       ELSE LET mean == Div(SumR(recent), R(n))
                sq == [i \in 1..n |-> Mul(Sub(recent[i], mean), Sub(recent[i], mean))]
                variance == Div(SumR(sq), R(n - 1))
                dev == Sub(Last(history), mean)
            IN IF variance = R(0) THEN R(0)
               ELSE IF Lt(dev, R(0)) THEN Sub(R(0), Div(Mul(dev, dev), variance))
               ELSE Div(Mul(dev, dev), variance)

ZScoreSq(history, lookback_period) ==
    IF Len(history) < lookback_period THEN R(0)
    ELSE LET recent == LastN(history, lookback_period)
             n == Len(recent)
         IN IF n < 2 THEN R(0)       \* statistics.StatisticsError is caught
            ELSE LET mean == Div(SumR(recent), R(n))
                     sq == [i \in 1..n |-> Mul(Sub(recent[i], mean), Sub(recent[i], mean))]
                     variance == Div(SumR(sq), R(n - 1))      \* statistics.stdev ** 2
                     dev == Sub(Last(history), mean)
                 IN IF variance = R(0) THEN R(0)
                    ELSE IF Lt(dev, R(0)) THEN Sub(R(0), Div(Mul(dev, dev), variance))
                    ELSE Div(Mul(dev, dev), variance)

Square(k) == Mul(k, k)

OpenInterestAnalyzer(lookback_period, extreme_threshold) ==
    [lookback_period |-> lookback_period, extreme_threshold |-> extreme_threshold,
     oi_history |-> <<>>, price_history |-> <<>>]

OI_update(o, open_interest, price) ==
    LET oi1 == Append(o.oi_history, open_interest)
        pr1 == Append(o.price_history, price)
        max_size == o.lookback_period * 2
    IN IF Len(oi1) > max_size
       THEN [o EXCEPT !.oi_history = LastN(oi1, max_size),
                      !.price_history = LastN(pr1, max_size)]
       ELSE [o EXCEPT !.oi_history = oi1, !.price_history = pr1]

OI_update_oi_only(o, open_interest) ==
    [o EXCEPT !.oi_history = LastN(Append(o.oi_history, open_interest),
                                   o.lookback_period * 2)]

OI_set_price(o, price) ==
    [o EXCEPT !.price_history = LastN(Append(o.price_history, price),
                                      o.lookback_period * 2)]

OI_get_confirmation(o, oi_rising) ==
    IF Len(o.price_history) < 2 THEN "NEUTRAL"
    ELSE IF oi_rising
         THEN IF Gt(Last(o.price_history), o.price_history[Len(o.price_history) - 1])
              THEN "BULLISH" ELSE "BEARISH"
         ELSE "NEUTRAL"

\* the OISignal built from the change and the z-score
OI_classify(o, change_pct, z_score) ==
    [is_rising |-> Gt(change_pct, R(0)), change_pct |-> change_pct, z_score |-> z_score,
     is_extreme |-> Gt(AbsR(z_score), Square(o.extreme_threshold)),
     confirmation |-> OI_get_confirmation(o, Gt(change_pct, R(0)))]

OI_get_signal(o) ==
    IF Len(o.oi_history) < 2
    THEN [is_rising |-> FALSE, change_pct |-> R(0), z_score |-> R(0),
          is_extreme |-> FALSE, confirmation |-> "NEUTRAL"]
    ELSE LET current_oi == Last(o.oi_history)
             previous_oi == o.oi_history[Len(o.oi_history) - 1]
         IN OI_classify(o,
                        IF previous_oi = R(0) THEN R(0)
                        ELSE Mul(Div(Sub(current_oi, previous_oi), previous_oi), R(100)),
                        ZScoreSq(o.oi_history, o.lookback_period))

\* Funding rates are counted in units of 0.0001 (one basis point per period)
ExtremeThresholdRate == 5      \* 0.0005
SentimentRate == 1             \* 0.0001
ExtremeThresholdZ == 2
FUNDING_PERIODS_PER_DAY == 3
OiExtremeThreshold == 2

FundingRateAnalyzer(lookback_period, extreme_threshold_z, extreme_threshold_rate) ==
    [lookback_period |-> lookback_period, extreme_threshold_z |-> extreme_threshold_z,
     extreme_threshold_rate |-> extreme_threshold_rate, funding_history |-> <<>>]

Funding_update(f, funding_rate) ==
    [f EXCEPT !.funding_history = LastN(Append(f.funding_history, funding_rate),
                                        f.lookback_period * 2)]

\* the FundingSignal built from the rate, the z-score and the two extreme flags
Funding_classify(current_rate, z_score, is_extreme_positive, is_extreme_negative) ==
    [rate |-> current_rate,
     rate_annualized |-> Mul(current_rate, R(FUNDING_PERIODS_PER_DAY * 365 * 100)),
     z_score |-> z_score,
     is_extreme_positive |-> is_extreme_positive,
     is_extreme_negative |-> is_extreme_negative,
     sentiment |-> IF is_extreme_positive THEN "LONG_HEAVY"
                   ELSE IF is_extreme_negative THEN "SHORT_HEAVY"
                   ELSE IF Gt(current_rate, R(SentimentRate)) THEN "LONG_HEAVY"
                   ELSE IF Lt(current_rate, R(0 - SentimentRate)) THEN "SHORT_HEAVY"
                   ELSE "NEUTRAL",
     squeeze_risk |-> IF is_extreme_positive THEN "LONG_SQUEEZE"
                      ELSE IF is_extreme_negative THEN "SHORT_SQUEEZE"
                      ELSE "NONE"]

\* "determine extremes": either the z-score or the absolute rate passes its threshold
Funding_extremes(f, current_rate, z_score) ==
    Funding_classify(current_rate, z_score,
                     \/ Gt(z_score, Square(f.extreme_threshold_z))
                     \/ Gt(current_rate, f.extreme_threshold_rate),
                     \/ Lt(z_score, Sub(R(0), Square(f.extreme_threshold_z)))
                     \/ Lt(current_rate, Sub(R(0), f.extreme_threshold_rate)))

Funding_get_signal(f) ==
    IF f.funding_history = <<>>
    THEN [rate |-> R(0), rate_annualized |-> R(0), z_score |-> R(0),
          is_extreme_positive |-> FALSE, is_extreme_negative |-> FALSE,
          sentiment |-> "NEUTRAL", squeeze_risk |-> "NONE"]
    ELSE Funding_extremes(f, Last(f.funding_history),
                          ZScoreSq(f.funding_history, f.lookback_period))

\* ------------------------------------------------------------------------
\* Strategy engine  (src/strategy/engine.py)
\* ------------------------------------------------------------------------
WEIGHT_EMA == 20
WEIGHT_RSI == 20
WEIGHT_MACD == 20
WEIGHT_OI == 20
WEIGHT_FUNDING == 20

\* the analyzers' default look-back windows (20 and 50 in the source), scaled
OiLookback == 2
FundingLookback == 2

\* StrategyConfig.trade_cooldown (300 s in the source), scaled; the clock
StartTime == 1
MaxTime == 3
TradeCooldown == 2

\* RiskConfig.stoploss_atr_multiplier = 1.5 and takeprofit_ratio = 2.0
StoplossAtrMultiplier == Frac(3, 2)
TakeprofitRatio == R(2)

\* StrategyConfig's default thresholds
DefaultConfig == [min_confluence_score |-> 60, min_indicators_aligned |-> 3]

\* the threshold pairs a StrategyConfig is drawn from: the defaults and a laxer one
Configs ==
    {DefaultConfig,
     [min_confluence_score |-> 40, min_indicators_aligned |-> 2]}

SymbolState ==
    [ema |-> EMAIndicator, rsi |-> RSIIndicator, macd |-> MACDIndicator,
     atr |-> ATRIndicator,
     oi |-> OpenInterestAnalyzer(OiLookback, R(OiExtremeThreshold)),
     funding |-> FundingRateAnalyzer(FundingLookback, R(ExtremeThresholdZ),
                                     R(ExtremeThresholdRate)),
     last_price |-> R(0), last_signal_time |-> 0, last_signal_type |-> "NEUTRAL"]

\* self._symbols[symbol], created on first use by _init_symbol
StateOf(syms, symbol) == IF symbol \in DOMAIN syms THEN syms[symbol] ELSE SymbolState

Put(syms, symbol, state) ==
    [x \in DOMAIN syms \cup {symbol} |-> IF x = symbol THEN state ELSE syms[x]]

update_kline(syms, symbol, kline) ==
    LET state == StateOf(syms, symbol)
    IN Put(syms, symbol,
           [state EXCEPT !.last_price = kline.close,
                         !.ema = EMA_update(state.ema, kline.close),
                         !.rsi = RSI_update(state.rsi, kline.close),
                         !.macd = MACD_update(state.macd, kline.close),
                         !.atr = ATR_update(state.atr, kline.high, kline.low, kline.close),
                         !.oi = OI_set_price(state.oi, kline.close)])

\* variant: the ticker's price is entered in the OI analyzer's price history as well
update_ticker_with_oi_price(syms, ticker) ==
    LET state == StateOf(syms, ticker.symbol)
    IN Put(syms, ticker.symbol,
           [state EXCEPT !.last_price = ticker.last_price,
                         !.oi = OI_update(state.oi, ticker.open_interest, ticker.last_price),
                         !.funding = Funding_update(state.funding, ticker.funding_rate)])

update_ticker(syms, ticker) ==
    LET state == StateOf(syms, ticker.symbol)
    IN Put(syms, ticker.symbol,
           [state EXCEPT !.last_price = ticker.last_price,
                         !.oi = OI_update_oi_only(state.oi, ticker.open_interest),
                         !.funding = Funding_update(state.funding, ticker.funding_rate)])

Column(klines, f) == [i \in 1..Len(klines) |-> klines[i][f]]

update_batch(syms, symbol, klines) ==
    LET state == StateOf(syms, symbol)
        closes == Column(klines, "close")
        highs == Column(klines, "high")
        lows == Column(klines, "low")
    IN Put(syms, symbol,
           [state EXCEPT !.ema = EMA_update_batch(state.ema, closes),
                         !.rsi = RSI_update_batch(state.rsi, closes),
                         !.macd = MACD_update_batch(state.macd, closes),
                         !.atr = ATR_update_batch(state.atr, highs, lows, closes),
                         !.last_price = IF klines # <<>> THEN Last(klines).close
                                        ELSE state.last_price])

\* the IndicatorStatus built from the indicators and the two analyzer signals
IndicatorStatus(state, oi_signal, funding_signal) ==
    [ema_bullish |-> EMA_is_bullish(state.ema),
     ema_crossover |-> EMA_is_bullish_crossover(state.ema),
     rsi_oversold |-> RSI_is_oversold(state.rsi),
     rsi_overbought |-> RSI_is_overbought(state.rsi),
     rsi_recovering |-> RSI_is_recovering_from_oversold(state.rsi),
     rsi_falling |-> RSI_is_falling_from_overbought(state.rsi),
     macd_bullish |-> MACD_is_bullish(state.macd),
     macd_crossover |-> MACD_is_bullish_crossover(state.macd),
     macd_histogram_rising |-> MACD_is_histogram_rising(state.macd),
     oi_rising |-> oi_signal.is_rising,
     oi_confirmation |-> oi_signal.confirmation,
     funding_sentiment |-> funding_signal.sentiment,
     funding_squeeze_risk |-> funding_signal.squeeze_risk]

_evaluate_indicators(state) ==
    IndicatorStatus(state, OI_get_signal(state.oi), Funding_get_signal(state.funding))

\* variant: only the upper bound is applied
Clamp_upper_only(score) == IF score > 100 THEN 100 ELSE score

Clamp(score) == IF score > 100 THEN 100 ELSE IF score < 0 THEN 0 ELSE score

\* variant: the half credit for rising OI counts as an aligned indicator
_calculate_long_score_partial_aligned(status) ==
    LET ema == IF status.ema_bullish THEN <<WEIGHT_EMA, 1>>
               ELSE IF status.ema_crossover THEN <<WEIGHT_EMA, 1>>
               ELSE <<0, 0>>
        rsi == IF status.rsi_recovering \/ status.rsi_oversold THEN <<WEIGHT_RSI, 1>>
               ELSE IF status.rsi_overbought THEN <<-10, 0>>
               ELSE <<0, 0>>
        macd == IF status.macd_bullish \/ status.macd_crossover THEN <<WEIGHT_MACD, 1>>
                ELSE <<0, 0>>
        oi == IF status.oi_rising /\ status.oi_confirmation = "BULLISH" THEN <<WEIGHT_OI, 1>>
              ELSE IF status.oi_rising THEN <<WEIGHT_OI \div 2, 1>>
              ELSE <<0, 0>>
        funding == IF status.funding_squeeze_risk = "SHORT_SQUEEZE" THEN <<WEIGHT_FUNDING, 1>>
                   ELSE IF status.funding_sentiment = "SHORT_HEAVY"
                        THEN <<WEIGHT_FUNDING \div 2, 0>>
                   ELSE IF status.funding_sentiment = "LONG_HEAVY" THEN <<-10, 0>>
                   ELSE <<0, 0>>
    IN [score |-> Clamp(ema[1] + rsi[1] + macd[1] + oi[1] + funding[1]),
        aligned |-> ema[2] + rsi[2] + macd[2] + oi[2] + funding[2]]

_calculate_long_score(status) ==
    LET ema == IF status.ema_bullish THEN <<WEIGHT_EMA, 1>>
               ELSE IF status.ema_crossover THEN <<WEIGHT_EMA, 1>>
               ELSE <<0, 0>>
        rsi == IF status.rsi_recovering \/ status.rsi_oversold THEN <<WEIGHT_RSI, 1>>
               ELSE IF status.rsi_overbought THEN <<-10, 0>>
               ELSE <<0, 0>>
        macd == IF status.macd_bullish \/ status.macd_crossover THEN <<WEIGHT_MACD, 1>>
                ELSE <<0, 0>>
        oi == IF status.oi_rising /\ status.oi_confirmation = "BULLISH" THEN <<WEIGHT_OI, 1>>
              ELSE IF status.oi_rising THEN <<WEIGHT_OI \div 2, 0>>
              ELSE <<0, 0>>
        funding == IF status.funding_squeeze_risk = "SHORT_SQUEEZE" THEN <<WEIGHT_FUNDING, 1>>
                   ELSE IF status.funding_sentiment = "SHORT_HEAVY"
                        THEN <<WEIGHT_FUNDING \div 2, 0>>
                   ELSE IF status.funding_sentiment = "LONG_HEAVY" THEN <<-10, 0>>
                   ELSE <<0, 0>>
    IN [score |-> Clamp(ema[1] + rsi[1] + macd[1] + oi[1] + funding[1]),
        aligned |-> ema[2] + rsi[2] + macd[2] + oi[2] + funding[2]]

\* variant: the EMA weight is granted whenever there is no bullish crossover
_calculate_short_score_no_crossover(status) ==
    LET ema == IF ~status.ema_crossover THEN <<WEIGHT_EMA, 1>>
               ELSE <<0, 0>>
        rsi == IF status.rsi_falling \/ status.rsi_overbought THEN <<WEIGHT_RSI, 1>>
               ELSE IF status.rsi_oversold THEN <<-10, 0>>
               ELSE <<0, 0>>
        macd == IF ~status.macd_bullish THEN <<WEIGHT_MACD, 1>> ELSE <<0, 0>>
        oi == IF status.oi_rising /\ status.oi_confirmation = "BEARISH" THEN <<WEIGHT_OI, 1>>
              ELSE IF status.oi_rising THEN <<WEIGHT_OI \div 2, 0>>
              ELSE <<0, 0>>
        funding == IF status.funding_squeeze_risk = "LONG_SQUEEZE" THEN <<WEIGHT_FUNDING, 1>>
                   ELSE IF status.funding_sentiment = "LONG_HEAVY"
                        THEN <<WEIGHT_FUNDING \div 2, 0>>
                   ELSE IF status.funding_sentiment = "SHORT_HEAVY" THEN <<-10, 0>>
                   ELSE <<0, 0>>
    IN [score |-> Clamp(ema[1] + rsi[1] + macd[1] + oi[1] + funding[1]),
        aligned |-> ema[2] + rsi[2] + macd[2] + oi[2] + funding[2]]

_calculate_short_score(status) ==
    LET ema == IF ~status.ema_bullish /\ ~status.ema_crossover THEN <<WEIGHT_EMA, 1>>
               ELSE <<0, 0>>
        rsi == IF status.rsi_falling \/ status.rsi_overbought THEN <<WEIGHT_RSI, 1>>
               ELSE IF status.rsi_oversold THEN <<-10, 0>>
               ELSE <<0, 0>>
        macd == IF ~status.macd_bullish THEN <<WEIGHT_MACD, 1>> ELSE <<0, 0>>
        oi == IF status.oi_rising /\ status.oi_confirmation = "BEARISH" THEN <<WEIGHT_OI, 1>>
              ELSE IF status.oi_rising THEN <<WEIGHT_OI \div 2, 0>>
              ELSE <<0, 0>>
        funding == IF status.funding_squeeze_risk = "LONG_SQUEEZE" THEN <<WEIGHT_FUNDING, 1>>
                   ELSE IF status.funding_sentiment = "LONG_HEAVY"
                        THEN <<WEIGHT_FUNDING \div 2, 0>>
                   ELSE IF status.funding_sentiment = "SHORT_HEAVY" THEN <<-10, 0>>
                   ELSE <<0, 0>>
    IN [score |-> Clamp(ema[1] + rsi[1] + macd[1] + oi[1] + funding[1]),
        aligned |-> ema[2] + rsi[2] + macd[2] + oi[2] + funding[2]]

\* variant: the cooldown ends one second early
_check_cooldown_early(state, time) ==
    IF state.last_signal_time = 0 THEN TRUE
    ELSE time - state.last_signal_time >= TradeCooldown - 1

_check_cooldown(state, time) ==
    IF state.last_signal_time = 0 THEN TRUE
    ELSE time - state.last_signal_time >= TradeCooldown

\* variant: MACD is not waited for
_indicators_ready_without_macd(state) ==
    /\ EMA_is_ready(state.ema)
    /\ RSI_is_ready(state.rsi)
    /\ ATR_is_ready(state.atr)

_indicators_ready(state) ==
    /\ EMA_is_ready(state.ema)
    /\ RSI_is_ready(state.rsi)
    /\ MACD_is_ready(state.macd)
    /\ ATR_is_ready(state.atr)

\* variant: one threshold suffices
MeetsThresholds_either(scored, config) ==
    \/ scored.score >= config.min_confluence_score
    \/ scored.aligned >= config.min_indicators_aligned

\* "score >= min_score and aligned >= min_aligned", the test applied to each direction
MeetsThresholds(scored, config) ==
    /\ scored.score >= config.min_confluence_score
    /\ scored.aligned >= config.min_indicators_aligned

\* variant: SHORT is tested before LONG
Decide_short_first(status, config) ==
    LET long == _calculate_long_score(status)
        short == _calculate_short_score(status)
    IN IF MeetsThresholds(short, config)
       THEN [signal_type |-> "SHORT", confluence_score |-> short.score,
             indicators_aligned |-> short.aligned,
             long_score |-> long.score, short_score |-> short.score]
       ELSE IF MeetsThresholds(long, config)
       THEN [signal_type |-> "LONG", confluence_score |-> long.score,
             indicators_aligned |-> long.aligned,
             long_score |-> long.score, short_score |-> short.score]
       ELSE [signal_type |-> "NEUTRAL", confluence_score |-> 0,
             indicators_aligned |-> 0,
             long_score |-> long.score, short_score |-> short.score]

\* the scoring and decision steps of evaluate: the direction and the score it carries
Decide(status, config) ==
    LET long == _calculate_long_score(status)
        short == _calculate_short_score(status)
    IN IF MeetsThresholds(long, config)
       THEN [signal_type |-> "LONG", confluence_score |-> long.score,
             indicators_aligned |-> long.aligned,
             long_score |-> long.score, short_score |-> short.score]
       ELSE IF MeetsThresholds(short, config)
       THEN [signal_type |-> "SHORT", confluence_score |-> short.score,
             indicators_aligned |-> short.aligned,
             long_score |-> long.score, short_score |-> short.score]
       ELSE [signal_type |-> "NEUTRAL", confluence_score |-> 0,
             indicators_aligned |-> 0,
             long_score |-> long.score, short_score |-> short.score]

\* the parts of the comma-joined reason of a LONG or SHORT signal
Reasons(signal_type, status) ==
    IF signal_type = "LONG"
    THEN (IF status.ema_bullish THEN <<"EMA up">> ELSE <<>>)
         \o (IF status.rsi_recovering \/ status.rsi_oversold THEN <<"RSI oversold">> ELSE <<>>)
         \o (IF status.macd_bullish THEN <<"MACD up">> ELSE <<>>)
         \o (IF status.oi_rising THEN <<"OI up">> ELSE <<>>)
         \o (IF status.funding_squeeze_risk = "SHORT_SQUEEZE"
             THEN <<"Short squeeze risk">> ELSE <<>>)
    ELSE (IF ~status.ema_bullish THEN <<"EMA down">> ELSE <<>>)
         \o (IF status.rsi_falling \/ status.rsi_overbought THEN <<"RSI overbought">> ELSE <<>>)
         \o (IF ~status.macd_bullish THEN <<"MACD down">> ELSE <<>>)
         \o (IF status.oi_rising THEN <<"OI up">> ELSE <<>>)
         \o (IF status.funding_squeeze_risk = "LONG_SQUEEZE"
             THEN <<"Long squeeze risk">> ELSE <<>>)

\* A Signal; reason is the text with the values formatted into it kept apart
_create_signal(symbol, signal_type, score, aligned, state, status) ==
    [symbol |-> symbol, signal_type |-> signal_type,
     confluence_score |-> score, indicators_aligned |-> aligned,
     entry_price |-> state.last_price,
     stoploss_price |-> ATR_calculate_stoploss(state.atr, state.last_price, signal_type,
                                               StoplossAtrMultiplier),
     takeprofit_price |-> ATR_calculate_takeprofit(state.atr, state.last_price, signal_type,
                                                   TakeprofitRatio, StoplossAtrMultiplier),
     reason |-> [text |-> "signal", values |-> Reasons(signal_type, status)]]

_neutral_signal(symbol, text, values) ==
    [symbol |-> symbol, signal_type |-> "NEUTRAL",
     confluence_score |-> 0, indicators_aligned |-> 0,
     entry_price |-> None, stoploss_price |-> None, takeprofit_price |-> None,
     reason |-> [text |-> text, values |-> values]]

\* variant: the cooldown stamp is left on every symbol of the registry
Emit_stamps_every_symbol(syms, symbol, time, status, d) ==
    IF d.signal_type = "NEUTRAL"
    THEN [signal |-> _neutral_signal(symbol, "Confluence too low",
                                     <<d.long_score, d.short_score>>),
          symbols |-> syms]
    ELSE [signal |-> _create_signal(symbol, d.signal_type, d.confluence_score,
                                    d.indicators_aligned, syms[symbol], status),
          symbols |-> [x \in DOMAIN syms |->
                          [syms[x] EXCEPT !.last_signal_time = time,
                                          !.last_signal_type = d.signal_type]]]

\* the end of evaluate: the Signal for decision d, and the cooldown stamp it leaves
Emit(syms, symbol, time, status, d) ==
    IF d.signal_type = "NEUTRAL"
    THEN [signal |-> _neutral_signal(symbol, "Confluence too low",
                                     <<d.long_score, d.short_score>>),
          symbols |-> syms]
    ELSE [signal |-> _create_signal(symbol, d.signal_type, d.confluence_score,
                                    d.indicators_aligned, syms[symbol], status),
          symbols |-> [syms EXCEPT ![symbol].last_signal_time = time,
                                   ![symbol].last_signal_type = d.signal_type]]

\* the scoring step of evaluate on the status just computed
Score(syms, symbol, time, config, status) ==
    Emit(syms, symbol, time, status, Decide(status, config))

\* variant: an unknown symbol is set up by _init_symbol, as the update methods do
evaluate_registers_symbol(syms, symbol, time, config) ==
    IF symbol \notin DOMAIN syms
    THEN [signal |-> _neutral_signal(symbol, "", <<>>),
          symbols |-> Put(syms, symbol, SymbolState)]
    ELSE LET state == syms[symbol] IN
         IF ~_check_cooldown(state, time)
         THEN [signal |-> _neutral_signal(symbol, "Cooldown active", <<>>), symbols |-> syms]
         ELSE IF ~_indicators_ready(state)
         THEN [signal |-> _neutral_signal(symbol, "Indicators warming up", <<>>),
               symbols |-> syms]
         ELSE Score(syms, symbol, time, config, _evaluate_indicators(state))

\* evaluate(symbol) at wall-clock time `time`: the Signal returned and the registry after
evaluate(syms, symbol, time, config) ==
    IF symbol \notin DOMAIN syms
    THEN [signal |-> _neutral_signal(symbol, "", <<>>), symbols |-> syms]
    ELSE LET state == syms[symbol] IN
         IF ~_check_cooldown(state, time)
         THEN [signal |-> _neutral_signal(symbol, "Cooldown active", <<>>), symbols |-> syms]
         ELSE IF ~_indicators_ready(state)
         THEN [signal |-> _neutral_signal(symbol, "Indicators warming up", <<>>),
               symbols |-> syms]
         ELSE Score(syms, symbol, time, config, _evaluate_indicators(state))

\* ------------------------------------------------------------------------
\* State
\* ------------------------------------------------------------------------
VARIABLES
    symbols,   \* StrategyEngine._symbols: symbol -> SymbolState
    now,       \* time.time()
    cfg,       \* config.strategy: the thresholds in force
    result,    \* the Signal returned by the evaluate call just made, else NoSignal
    fired,     \* history: per symbol, when evaluate last returned LONG or SHORT (0: never)
    unit,      \* which class a stand-alone instance belongs to ("engine": none)
    ind,       \* the stand-alone indicator or analyzer instance
    log,       \* every input handed to it since construction or the last batch
    raised,    \* whether the call just made on it raised ValueError
    status,    \* an IndicatorStatus handed to the scorers directly
    scored,    \* what the scorers and the decision step returned for it
    bot        \* the TradingBot around the engine: its mode, tasks and positions

vars == <<symbols, now, cfg, result, fired, unit, ind, log, raised, status, scored, bot>>
engineVars == <<symbols, now, cfg, result, fired>>
indVars == <<unit, ind, log, raised>>
scoreVars == <<status, scored>>
botVars == <<bot>>

NoSignal == [signal_type |-> "NONE"]
NoInstance == [class |-> "none"]
NotScored == [done |-> FALSE]
NoStatus == [given |-> FALSE]
NoSymbols == <<>>
NoBot == [running |-> FALSE]

\* ------------------------------------------------------------------------
\* Inputs
\* ------------------------------------------------------------------------
Prices == {1, 2, 3}
\* a price that is not positive, as the feed parser yields for a missing field
InvalidPrices == {0}
\* the prices driven into a stand-alone EMA or MACD: one more, so that a
\* series can rise or fall for as long as the MACD takes to be ready
TrendPrices == Prices \cup {4}

KlinePrices == {1, 2}

\* candles: two with open = high = low = close and a wide one
Bars ==
    {[high |-> R(c), low |-> R(c), close |-> R(c)] : c \in KlinePrices}
        \cup {[high |-> R(3), low |-> R(1), close |-> R(2)]}

\* the candles fed to the engine: open = high = low = close
Klines == {[high |-> R(c), low |-> R(c), close |-> R(c)] : c \in KlinePrices}

\* open-interest readings; 0 is what the feed parser yields for a missing field
OpenInterests == {0, 1, 2}
\* funding rates per period, in units of 0.0001: beyond, at and within the thresholds
FundingRates == {-20, -10, 0, 2, 10}
\* the (open interest, funding rate) pairs a ticker carries
Readings == {<<1, 10>>, <<2, -10>>}
TickerPrices == {2}

ConfigSymbols == {"A"}          \* config.symbols
EvalSymbols == {"A"}                \* the symbols evaluate is called for

Tickers(symbol) ==
    {[symbol |-> symbol, last_price |-> R(p),
      open_interest |-> R(r[1]), funding_rate |-> R(r[2])] :
        p \in TickerPrices, r \in Readings}

SeqsUpTo(S, n) == UNION {[1..k -> S] : k \in 0..n}

\* the kline lists handed to the engine's update_batch: none or one candle
Warmups == {<<>>} \cup {<<kline>> : kline \in Klines}

\* ------------------------------------------------------------------------
\* The engine driven by klines, tickers and evaluations
\* ------------------------------------------------------------------------
Init ==
    /\ symbols = [s \in ConfigSymbols |-> SymbolState]
    /\ now = StartTime
    /\ cfg \in Configs
    /\ result = NoSignal
    /\ fired = [s \in EvalSymbols |-> 0]
    /\ unit = "engine" /\ ind = NoInstance /\ log = <<>> /\ raised = FALSE
    /\ status = NoStatus /\ scored = NotScored
    /\ bot = NoBot

UpdateKline(s, kline) ==
    /\ Len(StateOf(symbols, s).ema.prices) < MaxKlines
    /\ symbols' = update_kline(symbols, s, kline)
    /\ result' = NoSignal
    /\ UNCHANGED <<now, cfg, fired, indVars, scoreVars, botVars>>

UpdateTicker(ticker) ==
    /\ Len(StateOf(symbols, ticker.symbol).oi.oi_history) < MaxTickers
    /\ symbols' = update_ticker(symbols, ticker)
    /\ result' = NoSignal
    /\ UNCHANGED <<now, cfg, fired, indVars, scoreVars, botVars>>

\* historical warm-up, before the first live kline of the symbol
UpdateBatch(s, klines) ==
    /\ StateOf(symbols, s).oi.price_history = <<>>
    /\ StateOf(symbols, s).ema.prices = <<>>
    /\ symbols' = update_batch(symbols, s, klines)
    /\ result' = NoSignal
    /\ UNCHANGED <<now, cfg, fired, indVars, scoreVars, botVars>>

\* evaluate(s) has returned r.signal and left the registry r.symbols
Returned(s, r) ==
    /\ result' = r.signal
    /\ symbols' = r.symbols
    /\ fired' = IF r.signal.signal_type \in {"LONG", "SHORT"}
                THEN [fired EXCEPT ![s] = now] ELSE fired
    /\ UNCHANGED <<now, cfg, indVars, scoreVars, botVars>>

Evaluate(s) == Returned(s, evaluate(symbols, s, now, cfg))

\* A second passes. evaluate alone reads the clock, and only to measure the
\* time since the symbol's last signal, so the clock is left at StartTime
\* until a first signal has been returned.
Tick ==
    /\ now < MaxTime
    /\ \E s \in DOMAIN symbols : symbols[s].last_signal_time # 0
    /\ now' = now + 1
    /\ result' = NoSignal
    /\ UNCHANGED <<symbols, cfg, fired, indVars, scoreVars, botVars>>

Next ==
    \/ \E s \in ConfigSymbols, kline \in Klines : UpdateKline(s, kline)
    \/ \E s \in ConfigSymbols : \E ticker \in Tickers(s) : UpdateTicker(ticker)
    \/ \E s \in ConfigSymbols, klines \in Warmups : UpdateBatch(s, klines)
    \/ \E s \in EvalSymbols : Evaluate(s)
    \/ Tick

Spec == Init /\ [][Next]_vars

\* ------------------------------------------------------------------------
\* Properties of the engine
\* ------------------------------------------------------------------------
Actionable(signal) == signal.signal_type \in {"LONG", "SHORT"}

\* no LONG or SHORT was returned for s less than trade_cooldown ago
CooledDown(s) == fired[s] = 0 \/ now - fired[s] >= TradeCooldown

AllReady(state) ==
    /\ ~IsNone(CurrentOf(state.ema.fast_ema)) /\ ~IsNone(CurrentOf(state.ema.slow_ema))
    /\ ~IsNone(CurrentOf(state.rsi.rsi_values))
    /\ ~IsNone(CurrentOf(state.macd.macd_line)) /\ ~IsNone(CurrentOf(state.macd.signal_line))
    /\ ~IsNone(CurrentOf(state.atr.atr_values))

LongMet(state) ==
    LET long == _calculate_long_score(_evaluate_indicators(state))
    IN long.score >= cfg.min_confluence_score /\ long.aligned >= cfg.min_indicators_aligned

ShortMet(state) ==
    LET short == _calculate_short_score(_evaluate_indicators(state))
    IN short.score >= cfg.min_confluence_score /\ short.aligned >= cfg.min_indicators_aligned

\* C1: an evaluate(symbol) made less than trade_cooldown after a LONG or SHORT
\* was returned for that symbol returns NEUTRAL with the cooldown reason,
\* whatever the indicators hold; so two LONG/SHORT signals of one symbol are
\* never less than trade_cooldown apart.
C1_Cooldown ==
    [][\A s \in EvalSymbols :
          (~CooledDown(s) /\ Evaluate(s))
              => /\ result'.signal_type = "NEUTRAL"
                 /\ result'.reason.text = "Cooldown active"]_vars

\* a cooldown answer given although the indicators are ready and a direction is met
C1_Witness ==
    /\ result.signal_type = "NEUTRAL"
    /\ result.reason.text = "Cooldown active"
    /\ fired[result.symbol] # 0
    /\ AllReady(symbols[result.symbol])
    /\ LongMet(symbols[result.symbol]) \/ ShortMet(symbols[result.symbol])

\* C2: out of cooldown and with all four indicators ready, evaluate returns
\* LONG iff the long score and aligned count meet both thresholds, SHORT iff
\* LONG is not met and the short ones do, NEUTRAL otherwise; every LONG/SHORT
\* signal carries a score and an aligned count that meet the thresholds.
C2_DecisionRule ==
    /\ [][\A s \in DOMAIN symbols :
            (CooledDown(s) /\ AllReady(symbols[s]) /\ Evaluate(s))
                => /\ result'.signal_type = "LONG" <=> LongMet(symbols[s])
                   /\ result'.signal_type = "SHORT"
                          <=> (~LongMet(symbols[s]) /\ ShortMet(symbols[s]))
                   /\ result'.signal_type = "NEUTRAL"
                          <=> (~LongMet(symbols[s]) /\ ~ShortMet(symbols[s]))]_vars
    /\ [](Actionable(result)
            => /\ result.confluence_score >= cfg.min_confluence_score
               /\ result.indicators_aligned >= cfg.min_indicators_aligned)

\* a SHORT returned because the long thresholds were missed and the short ones met
C2_Witness ==
    /\ result.signal_type = "SHORT"
    /\ ShortMet(symbols[result.symbol])
    /\ ~LongMet(symbols[result.symbol])

\* C3: out of cooldown, evaluate answers NEUTRAL "warming up" whenever one of
\* EMA, RSI, MACD, ATR is not ready - as the fresh engine does - and then
\* nothing is scored and the symbol's state is left as it was.
C3_ReadinessGate ==
    [][\A s \in DOMAIN symbols :
          (CooledDown(s) /\ ~AllReady(symbols[s]) /\ Evaluate(s))
              => /\ result'.signal_type = "NEUTRAL"
                 /\ result'.reason.text = "Indicators warming up"
                 /\ result'.confluence_score = 0 /\ result'.indicators_aligned = 0
                 /\ symbols' = symbols]_vars

\* "warming up" answered while EMA, RSI and ATR are ready and only MACD is not
C3_Witness ==
    /\ result.signal_type = "NEUTRAL"
    /\ result.reason.text = "Indicators warming up"
    /\ EMA_is_ready(symbols[result.symbol].ema)
    /\ RSI_is_ready(symbols[result.symbol].rsi)
    /\ ATR_is_ready(symbols[result.symbol].atr)
    /\ ~MACD_is_ready(symbols[result.symbol].macd)

\* C6: whenever the LONG and the SHORT thresholds are met in one evaluation,
\* evaluate returns LONG.
C6_LongFirst ==
    [][\A s \in DOMAIN symbols :
          (CooledDown(s) /\ AllReady(symbols[s])
             /\ LongMet(symbols[s]) /\ ShortMet(symbols[s]) /\ Evaluate(s))
              => result'.signal_type = "LONG"]_vars

\* such an evaluation: LONG returned while the short thresholds are met as well
C6_Witness ==
    /\ result.signal_type = "LONG"
    /\ LongMet(symbols[result.symbol])
    /\ ShortMet(symbols[result.symbol])

\* ------------------------------------------------------------------------
\* The scorers called directly on an IndicatorStatus
\* ------------------------------------------------------------------------
IndicatorStatusSet ==
    [ema_bullish : BOOLEAN, ema_crossover : BOOLEAN,
     rsi_oversold : BOOLEAN, rsi_overbought : BOOLEAN,
     rsi_recovering : BOOLEAN, rsi_falling : BOOLEAN,
     macd_bullish : BOOLEAN, macd_crossover : BOOLEAN,
     macd_histogram_rising : BOOLEAN,
     oi_rising : BOOLEAN, oi_confirmation : {"BULLISH", "BEARISH", "NEUTRAL"},
     funding_sentiment : {"LONG_HEAVY", "SHORT_HEAVY", "NEUTRAL"},
     funding_squeeze_risk : {"LONG_SQUEEZE", "SHORT_SQUEEZE", "NONE"}]

InitScore ==
    /\ status \in IndicatorStatusSet
    /\ cfg \in Configs
    /\ scored = NotScored
    /\ symbols = NoSymbols
    /\ now = StartTime /\ result = NoSignal /\ fired = [s \in EvalSymbols |-> 0]
    /\ unit = "engine" /\ ind = NoInstance /\ log = <<>> /\ raised = FALSE
    /\ bot = NoBot

\* _calculate_long_score, _calculate_short_score and the decision step on `status`
ScoreStatus ==
    /\ ~scored.done
    /\ scored' = [done |-> TRUE,
                  long |-> _calculate_long_score(status),
                  short |-> _calculate_short_score(status),
                  decision |-> Decide(status, cfg)]
    /\ UNCHANGED <<status, engineVars, indVars, botVars>>

NextScore == ScoreStatus

SpecScore == InitScore /\ [][NextScore]_vars

Pts(condition, points) == IF condition THEN points ELSE 0

\* the LONG table with the EMA contribution granted on `ema`
LongTable(st, ema) ==
    [score |-> Clamp(
         Pts(ema, 20)
         + (IF st.rsi_recovering \/ st.rsi_oversold THEN 20
            ELSE Pts(st.rsi_overbought, -10))
         + Pts(st.macd_bullish \/ st.macd_crossover, 20)
         + (IF st.oi_rising /\ st.oi_confirmation = "BULLISH" THEN 20
            ELSE Pts(st.oi_rising, 10))
         + (IF st.funding_squeeze_risk = "SHORT_SQUEEZE" THEN 20
            ELSE IF st.funding_sentiment = "SHORT_HEAVY" THEN 10
            ELSE Pts(st.funding_sentiment = "LONG_HEAVY", -10))),
     aligned |->
         Pts(ema, 1)
         + Pts(st.rsi_recovering \/ st.rsi_oversold, 1)
         + Pts(st.macd_bullish \/ st.macd_crossover, 1)
         + Pts(st.oi_rising /\ st.oi_confirmation = "BULLISH", 1)
         + Pts(st.funding_squeeze_risk = "SHORT_SQUEEZE", 1)]

AllFive(st, ema) ==
    /\ ema
    /\ st.rsi_recovering \/ st.rsi_oversold
    /\ st.macd_bullish \/ st.macd_crossover
    /\ st.oi_rising /\ st.oi_confirmation = "BULLISH"
    /\ st.funding_squeeze_risk = "SHORT_SQUEEZE"

\* C4 as stated: the LONG score is the clamped sum of the table whose EMA
\* line is "+20 if EMA bullish", and aligned counts the +20 lines.
C4_AsClaimed ==
    scored.done => scored.long = LongTable(status, status.ema_bullish)

\* C4 amended: the EMA line is "+20 if EMA bullish or EMA bullish crossover";
\* the other four lines are as stated, aligned counts exactly the +20 lines,
\* and five full contributions give score 100 and aligned 5.
C4_LongTable ==
    scored.done =>
        /\ scored.long = LongTable(status, status.ema_bullish \/ status.ema_crossover)
        /\ AllFive(status, status.ema_bullish \/ status.ema_crossover)
               => scored.long = [score |-> 100, aligned |-> 5]

\* five full contributions, the EMA one granted on the crossover flag alone
C4_Witness ==
    /\ scored.done
    /\ ~status.ema_bullish /\ status.ema_crossover
    /\ AllFive(status, TRUE)
    /\ scored.long = [score |-> 100, aligned |-> 5]

\* C5: both scorers return a score in 0..100 and an aligned count in 0..5,
\* and the signal decided from them carries a confluence_score in 0..100.
C5_ScoreClamp ==
    scored.done =>
        /\ scored.long.score \in 0..100 /\ scored.long.aligned \in 0..5
        /\ scored.short.score \in 0..100 /\ scored.short.aligned \in 0..5
        /\ scored.decision.confluence_score \in 0..100

\* a status whose penalties outweigh its credits: the raw LONG sum is -20
C5_Witness ==
    /\ scored.done
    /\ status.rsi_overbought /\ ~status.rsi_recovering /\ ~status.rsi_oversold
    /\ status.funding_sentiment = "LONG_HEAVY"
    /\ status.funding_squeeze_risk # "SHORT_SQUEEZE"
    /\ ~status.ema_bullish /\ ~status.ema_crossover
    /\ ~status.macd_bullish /\ ~status.macd_crossover /\ ~status.oi_rising
    /\ scored.long.score = 0

\* ------------------------------------------------------------------------
\* One indicator or analyzer instance driven on its own
\* ------------------------------------------------------------------------
Units == {"ema", "rsi", "macd", "atr", "oi", "funding"}

Fresh(u) ==
    CASE u = "ema" -> EMAIndicator
      [] u = "rsi" -> RSIIndicator
      [] u = "macd" -> MACDIndicator
      [] u = "atr" -> ATRIndicator
      [] u = "oi" -> OpenInterestAnalyzer(OiLookback, R(OiExtremeThreshold))
      [] u = "funding" -> FundingRateAnalyzer(FundingLookback, R(ExtremeThresholdZ),
                                              R(ExtremeThresholdRate))

\* the inputs received so far, under the name of the raw history they go to
EmptyLog(u) ==
    CASE u \in {"ema", "rsi", "macd"} -> [prices |-> <<>>]
      [] u = "atr" -> [highs |-> <<>>, lows |-> <<>>, closes |-> <<>>]
      [] u = "oi" -> [oi_history |-> <<>>, price_history |-> <<>>]
      [] u = "funding" -> [funding_history |-> <<>>]

\* (lookback_period, z-score threshold) pairs an analyzer is constructed with:
\* the engine's, and a longer window with a threshold its z-scores can pass
AnalyzerParams == {<<OiLookback, ExtremeThresholdZ>>, <<3, 1>>}

Instances(u) ==
    IF u = "oi"
    THEN {OpenInterestAnalyzer(a[1], R(a[2])) : a \in AnalyzerParams}
    ELSE IF u = "funding"
    THEN {FundingRateAnalyzer(a[1], R(a[2]), R(ExtremeThresholdRate)) : a \in AnalyzerParams}
    ELSE {Fresh(u)}

InitInd ==
    /\ unit \in Units
    /\ ind \in Instances(unit)
    /\ log = EmptyLog(unit)
    /\ raised = FALSE
    /\ symbols = NoSymbols /\ cfg \in {CHOOSE c \in Configs : TRUE}
    /\ now = StartTime /\ result = NoSignal /\ fired = [s \in EvalSymbols |-> 0]
    /\ status = NoStatus /\ scored = NotScored
    /\ bot = NoBot

Rs(ints) == [i \in 1..Len(ints) |-> R(ints[i])]

\* the lists handed to update_batch
PriceBatches == SeqsUpTo(Prices, MaxBatch)
BarBatches == SeqsUpTo(Bars, MaxBatch)

\* The update_batch calls are made on a fresh instance: a historical warm-up
\* that precedes the live updates.

EmaUpdate(p) ==
    /\ unit = "ema" /\ Len(log.prices) < MaxUpdates
    /\ ind' = EMA_update(ind, R(p))
    /\ log' = [prices |-> Append(log.prices, R(p))]
    /\ raised' = FALSE
    /\ UNCHANGED <<unit, engineVars, scoreVars, botVars>>

EmaBatch ==
    /\ unit = "ema" /\ ind = EMAIndicator
    /\ \E ps \in PriceBatches :
          /\ ind' = EMA_update_batch(ind, Rs(ps))
          /\ log' = [prices |-> Rs(ps)]
    /\ raised' = FALSE
    /\ UNCHANGED <<unit, engineVars, scoreVars, botVars>>

RsiUpdate(p) ==
    /\ unit = "rsi" /\ Len(log.prices) < MaxUpdates
    /\ ind' = RSI_update(ind, R(p))
    /\ log' = [prices |-> Append(log.prices, R(p))]
    /\ raised' = FALSE
    /\ UNCHANGED <<unit, engineVars, scoreVars, botVars>>

RsiBatch ==
    /\ unit = "rsi" /\ ind = RSIIndicator
    /\ \E ps \in PriceBatches :
          /\ ind' = RSI_update_batch(ind, Rs(ps))
          /\ log' = [prices |-> Rs(ps)]
    /\ raised' = FALSE
    /\ UNCHANGED <<unit, engineVars, scoreVars, botVars>>

MacdUpdate(p) ==
    /\ unit = "macd" /\ Len(log.prices) < MaxUpdates
    /\ ind' = MACD_update(ind, R(p))
    /\ log' = [prices |-> Append(log.prices, R(p))]
    /\ raised' = FALSE
    /\ UNCHANGED <<unit, engineVars, scoreVars, botVars>>

MacdBatch ==
    /\ unit = "macd" /\ ind = MACDIndicator
    /\ \E ps \in PriceBatches :
          /\ ind' = MACD_update_batch(ind, Rs(ps))
          /\ log' = [prices |-> Rs(ps)]
    /\ raised' = FALSE
    /\ UNCHANGED <<unit, engineVars, scoreVars, botVars>>

AtrUpdate(bar) ==
    /\ unit = "atr" /\ Len(log.highs) < MaxUpdates
    /\ ind' = ATR_update(ind, bar.high, bar.low, bar.close)
    /\ log' = [highs |-> Append(log.highs, bar.high), lows |-> Append(log.lows, bar.low),
               closes |-> Append(log.closes, bar.close)]
    /\ raised' = ATR_update_raises(ind)
    /\ UNCHANGED <<unit, engineVars, scoreVars, botVars>>

\* update_batch with the columns of some bars, the lows list `missing` entries short
AtrBatch ==
    /\ unit = "atr" /\ ind = ATRIndicator
    /\ \E bars \in BarBatches, missing \in {0, 1} :
          LET highs == Column(bars, "high")
              lows == SubSeq(Column(bars, "low"), 1, Len(bars) - missing)
              closes == Column(bars, "close")
          IN /\ missing <= Len(bars)
             /\ ind' = ATR_update_batch(ind, highs, lows, closes)
             /\ log' = [highs |-> highs, lows |-> lows, closes |-> closes]
             /\ raised' = ATR_update_batch_raises(highs, lows, closes)
    /\ UNCHANGED <<unit, engineVars, scoreVars, botVars>>

OiUpdate(o, p) ==
    /\ unit = "oi"
    /\ Len(log.oi_history) < MaxOiReadings /\ Len(log.price_history) < MaxOiInputs
    /\ ind' = OI_update(ind, R(o), R(p))
    /\ log' = [oi_history |-> Append(log.oi_history, R(o)),
               price_history |-> Append(log.price_history, R(p))]
    /\ raised' = FALSE
    /\ UNCHANGED <<unit, engineVars, scoreVars, botVars>>

OiUpdateOiOnly(o) ==
    /\ unit = "oi" /\ Len(log.oi_history) < MaxOiReadings
    /\ ind' = OI_update_oi_only(ind, R(o))
    /\ log' = [log EXCEPT !.oi_history = Append(@, R(o))]
    /\ raised' = FALSE
    /\ UNCHANGED <<unit, engineVars, scoreVars, botVars>>

OiSetPrice(p) ==
    /\ unit = "oi" /\ Len(log.price_history) < MaxOiInputs
    /\ ind' = OI_set_price(ind, R(p))
    /\ log' = [log EXCEPT !.price_history = Append(@, R(p))]
    /\ raised' = FALSE
    /\ UNCHANGED <<unit, engineVars, scoreVars, botVars>>

FundingUpdate(f) ==
    /\ unit = "funding" /\ Len(log.funding_history) < MaxFundingInputs
    /\ ind' = Funding_update(ind, R(f))
    /\ log' = [funding_history |-> Append(log.funding_history, R(f))]
    /\ raised' = FALSE
    /\ UNCHANGED <<unit, engineVars, scoreVars, botVars>>

NextInd ==
    \/ \E p \in TrendPrices : EmaUpdate(p)
    \/ EmaBatch
    \/ \E p \in Prices \cup InvalidPrices : RsiUpdate(p)
    \/ RsiBatch
    \/ \E p \in TrendPrices : MacdUpdate(p)
    \/ MacdBatch
    \/ \E bar \in Bars : AtrUpdate(bar)
    \/ AtrBatch
    \/ \E o \in OpenInterests, p \in KlinePrices : OiUpdate(o, p)
    \/ \E o \in OpenInterests : OiUpdateOiOnly(o)
    \/ \E p \in KlinePrices : OiSetPrice(p)
    \/ \E f \in FundingRates : FundingUpdate(f)

SpecInd == InitInd /\ [][NextInd]_vars

\* ------------------------------------------------------------------------
\* Properties of the indicators and analyzers
\* ------------------------------------------------------------------------
\* C7: after an update, is_bullish_crossover() is true exactly when fast is
\* above slow now and, after the immediately preceding update, both were
\* defined with fast not above slow - so it is false on the first ready
\* update and on every update where fast stays above slow; symmetrically
\* for is_bearish_crossover().
C7_EdgeTriggered ==
    [][\A p \in TrendPrices :
          EmaUpdate(p) =>
              LET fast == CurrentOf(ind.fast_ema)
                  slow == CurrentOf(ind.slow_ema)
                  fast1 == CurrentOf(ind'.fast_ema)
                  slow1 == CurrentOf(ind'.slow_ema)
              IN /\ EMA_is_bullish_crossover(ind')
                       <=> (IsNum(fast) /\ IsNum(slow) /\ ~Gt(fast, slow) /\ Gt(fast1, slow1))
                 /\ EMA_is_bearish_crossover(ind')
                       <=> (IsNum(fast) /\ IsNum(slow) /\ ~Lt(fast, slow) /\ Lt(fast1, slow1))]_vars

\* an update on which fast has just moved above slow
C7_Witness ==
    /\ unit = "ema"
    /\ Len(log.prices) > EmaSlow
    /\ EMA_is_bullish_crossover(ind)

\* the NaN entries of a derived sequence form a prefix
NaNPrefix(series) ==
    \A i \in 1..Len(series) : \A j \in 1..Len(series) :
        (i < j /\ IsNaN(series[j])) => IsNaN(series[i])

SameShape(series, raw) == Len(series) = Len(raw) /\ NaNPrefix(series)

\* C8: each derived sequence of an EMA, RSI, MACD or ATR instance is as long
\* as the instance's raw input sequences and its NaN entries form a prefix.
C8_SeriesShape ==
    /\ unit = "ema" => SameShape(ind.fast_ema, ind.prices) /\ SameShape(ind.slow_ema, ind.prices)
    /\ unit = "rsi" => SameShape(ind.rsi_values, ind.prices)
    /\ unit = "macd" => /\ SameShape(ind.macd_line, ind.prices)
                        /\ SameShape(ind.signal_line, ind.prices)
                        /\ SameShape(ind.histogram, ind.prices)
    /\ unit = "atr" => /\ SameShape(ind.atr_values, ind.highs)
                       /\ SameShape(ind.atr_values, ind.lows)
                       /\ SameShape(ind.atr_values, ind.closes)

\* the raw history is at most `cap` long and holds the latest inputs in arrival order
Retained(history, inputs, cap) == Len(history) <= cap /\ history = LastN(inputs, cap)

\* C9: once a call has returned, every raw history of an EMA, RSI, MACD or
\* ATR instance holds at most the cap's number of entries, the OI history,
\* the OI analyzer's price history and the funding history hold at most
\* 2 x lookback_period entries, and each holds the most recent inputs in
\* arrival order.
C9_BoundedHistories ==
    ~raised =>
        /\ unit \in {"ema", "rsi", "macd"} => Retained(ind.prices, log.prices, HistoryCap)
        /\ unit = "atr" => /\ Retained(ind.highs, log.highs, HistoryCap)
                           /\ Retained(ind.lows, log.lows, HistoryCap)
                           /\ Retained(ind.closes, log.closes, HistoryCap)
        /\ unit = "oi" => /\ Retained(ind.oi_history, log.oi_history, 2 * ind.lookback_period)
                          /\ Retained(ind.price_history, log.price_history,
                                      2 * ind.lookback_period)
        /\ unit = "funding" => Retained(ind.funding_history, log.funding_history,
                                        2 * ind.lookback_period)

Mean(values) == Div(SumR(values), R(Len(values)))

\* all NaN below `period` inputs; else NaN before index period and their mean there
SeededAt(series, inputs, period) ==
    IF Len(inputs) < period THEN \A i \in 1..Len(series) : IsNaN(series[i])
    ELSE /\ \A i \in 1..(period - 1) : IsNaN(series[i])
         /\ series[period] = Mean(SubSeq(inputs, 1, period))

\* the RSI of the simple averages of the first `period` gains and losses
SeedRsi(prices, period) ==
    LET change == [i \in 1..period |-> Sub(prices[i + 1], prices[i])]
        gain == Mean([i \in 1..period |-> IF change[i].n > 0 THEN change[i] ELSE R(0)])
        loss == Mean([i \in 1..period |-> IF change[i].n < 0 THEN AbsR(change[i]) ELSE R(0)])
    IN IF loss.n = 0 THEN R(100)
       ELSE Frac(100 * gain.n * loss.d, gain.n * loss.d + loss.n * gain.d)

\* nothing was evicted, so the derived sequences were computed from the raw ones as held
Untrimmed == \A f \in DOMAIN log : Len(log[f]) = Len(ind[f])

\* C10: calculate_ema is all NaN below p prices, else NaN at 0..p-2 and the
\* mean of the first p prices at p-1; calculate_atr has that shape over the
\* True Range values; calculate_rsi is NaN at 0..p-1 (everywhere below p+1
\* prices) and at p is the RSI of the simple averages of the first p gains
\* and losses.
C10_WarmUp ==
    (Untrimmed /\ ~raised) =>
        /\ unit = "ema" => /\ SeededAt(ind.fast_ema, ind.prices, EmaFast)
                           /\ SeededAt(ind.slow_ema, ind.prices, EmaSlow)
        /\ unit = "atr" =>
               SeededAt(ind.atr_values,
                        calculate_true_range(ind.highs, ind.lows, ind.closes), AtrPeriod)
        /\ unit = "rsi" =>
               IF Len(ind.prices) < RsiPeriod + 1
               THEN \A i \in 1..Len(ind.rsi_values) : IsNaN(ind.rsi_values[i])
               ELSE /\ \A i \in 1..RsiPeriod : IsNaN(ind.rsi_values[i])
                    /\ ind.rsi_values[RsiPeriod + 1] = SeedRsi(ind.prices, RsiPeriod)

\* an EMA past its warm-up over prices that are not all equal
C10_Witness ==
    /\ unit = "ema" /\ Untrimmed
    /\ Len(ind.prices) > EmaSlow
    /\ ind.prices[1] # ind.prices[2]
    /\ IsNaN(ind.slow_ema[EmaSlow - 1]) /\ IsNum(ind.slow_ema[EmaSlow])

\* the periods calculate_rsi is called with on the prices received
RsiPeriods == 1..3

\* Wilder's average of `values` after the first k of them (k >= period)
RECURSIVE WilderAvg(_, _, _)
WilderAvg(values, period, k) ==
    IF k <= period THEN Mean(SubSeq(values, 1, period))
    ELSE Div(Add(Mul(WilderAvg(values, period, k - 1), R(period - 1)), values[k]), R(period))

\* the averages after period, period + 1, ... of the values, in that order
WilderSeries(values, period) ==
    [k \in 1..(Len(values) - period + 1) |-> WilderAvg(values, period, k + period - 1)]

InRsiRange(v) == Ge(v, R(0)) /\ Le(v, R(100))

\* each defined entry is in range, and is 100 where the average loss behind it is 0
RsiSeriesOk(series, avg_losses, period) ==
    \A i \in 1..Len(series) :
        \/ IsNaN(series[i])
        \/ /\ InRsiRange(series[i])
           /\ avg_losses[i - period] = R(0) => series[i] = R(100)

\* C11: every defined value of calculate_rsi, for the prices received and any
\* period, and every defined value an RSIIndicator holds, lies in [0,100];
\* the value is exactly 100 wherever the seeded or Wilder-smoothed average
\* loss is 0.
C11_RsiRange ==
    unit = "rsi" =>
        /\ \A i \in 1..Len(ind.rsi_values) :
               IsNaN(ind.rsi_values[i]) \/ InRsiRange(ind.rsi_values[i])
        /\ \A period \in RsiPeriods :
               RsiSeriesOk(calculate_rsi(log.prices, period),
                           WilderSeries(Losses(Changes(log.prices)), period), period)

\* a Wilder-smoothed average loss of 0 under a positive average gain
C11_Witness ==
    /\ unit = "rsi" /\ Untrimmed
    /\ Len(ind.rsi_values) >= RsiPeriod + 2
    /\ WilderAvg(Losses(Changes(ind.prices)), RsiPeriod, Len(ind.prices) - 1) = R(0)
    /\ WilderAvg(Gains(Changes(ind.prices)), RsiPeriod, Len(ind.prices) - 1) # R(0)
    /\ Last(ind.rsi_values) = R(100)

\* C12: after an update, is_recovering_from_oversold() is true exactly when
\* the RSI that was current after the preceding update was defined and
\* below oversold, and the RSI now is above it and below 50; and
\* is_falling_from_overbought() exactly when that previous RSI was above
\* overbought and the RSI now is below it and above 50; so both are false
\* after the update on which RSI first becomes defined.
C12_Hysteresis ==
    [][\A p \in Prices \cup InvalidPrices :
          RsiUpdate(p) =>
              LET previous == CurrentOf(ind.rsi_values)
                  current == CurrentOf(ind'.rsi_values)
              IN /\ RSI_is_recovering_from_oversold(ind')
                       <=> /\ IsNum(previous) /\ IsNum(current)
                           /\ Lt(previous, R(RsiOversold))
                           /\ Gt(current, previous) /\ Lt(current, R(RsiMid))
                 /\ RSI_is_falling_from_overbought(ind')
                       <=> /\ IsNum(previous) /\ IsNum(current)
                           /\ Gt(previous, R(RsiOverbought))
                           /\ Lt(current, previous) /\ Gt(current, R(RsiMid))
                 /\ (IsNone(previous) /\ IsNum(current))
                       => /\ ~RSI_is_recovering_from_oversold(ind')
                          /\ ~RSI_is_falling_from_overbought(ind')]_vars

\* an update that lifted the RSI from below oversold to a value still below 50
C12_Witness ==
    /\ unit = "rsi"
    /\ RSI_is_recovering_from_oversold(ind)
    /\ Lt(ind.prev_rsi, R(RsiOversold))

\* the entry prices, sides, multipliers and risk:reward ratios the price methods are asked for
EntryPrices == {R(2), Frac(5, 2)}
Multipliers == {Frac(1, 2), Frac(3, 2)}
RiskRewards == {Frac(1, 2), R(2)}
LongSides == {"LONG", "long"}
ShortSides == {"SHORT", "short"}

PositiveAtr(a) == ATR_is_ready(a) /\ Gt(ATR_value(a), R(0))

\* `price` lies `distance` below (above) `entry`
Below(price, entry, distance) == Lt(price, entry) /\ Sub(entry, price) = distance
Above(price, entry, distance) == Gt(price, entry) /\ Sub(price, entry) = distance

\* C13: for a ready ATRIndicator with a positive ATR and a positive
\* multiplier m, the stop-loss of a LONG is strictly below entry, that of a
\* SHORT strictly above, each at distance ATR x m from entry.
C13_StoplossSide ==
    (unit = "atr" /\ PositiveAtr(ind)) =>
        \A entry \in EntryPrices, m \in Multipliers :
            /\ \A side \in LongSides :
                   Below(ATR_calculate_stoploss(ind, entry, side, m), entry,
                         Mul(ATR_value(ind), m))
            /\ \A side \in ShortSides :
                   Above(ATR_calculate_stoploss(ind, entry, side, m), entry,
                         Mul(ATR_value(ind), m))

\* a ready ATR of a fractional positive value, past its seed
C13_Witness ==
    /\ unit = "atr" /\ PositiveAtr(ind)
    /\ Len(ind.atr_values) > AtrPeriod
    /\ ATR_value(ind).d > 1
    /\ Lt(ATR_calculate_stoploss(ind, R(2), "LONG", Frac(3, 2)), R(2))

\* `target` is entry + reach, rr times as far from entry as `stop` on the other side
TargetAbove(target, entry, stop, reach, rr, positive) ==
    /\ target = Add(entry, reach)
    /\ Sub(target, entry) = Mul(Sub(entry, stop), rr)
    /\ positive => Gt(target, entry)

TargetBelow(target, entry, stop, reach, rr, positive) ==
    /\ target = Sub(entry, reach)
    /\ Sub(entry, target) = Mul(Sub(stop, entry), rr)
    /\ positive => Lt(target, entry)

\* C14: for a ready ATRIndicator, calculate_takeprofit(entry, side, rr, m)
\* is entry + ATR x m x rr for a LONG and entry - ATR x m x rr for a SHORT:
\* rr times the stop-loss distance, on the other side of entry from the
\* stop-loss, above entry for a LONG when ATR, m and rr are positive.
C14_Takeprofit ==
    (unit = "atr" /\ ATR_is_ready(ind)) =>
        \A entry \in EntryPrices, m \in Multipliers, rr \in RiskRewards :
            /\ \A side \in LongSides :
                   TargetAbove(ATR_calculate_takeprofit(ind, entry, side, rr, m), entry,
                               ATR_calculate_stoploss(ind, entry, side, m),
                               Mul(Mul(ATR_value(ind), m), rr), rr, PositiveAtr(ind))
            /\ \A side \in ShortSides :
                   TargetBelow(ATR_calculate_takeprofit(ind, entry, side, rr, m), entry,
                               ATR_calculate_stoploss(ind, entry, side, m),
                               Mul(Mul(ATR_value(ind), m), rr), rr, PositiveAtr(ind))

\* a LONG target twice as far above entry as the stop-loss is below it
C14_Witness ==
    /\ unit = "atr" /\ PositiveAtr(ind)
    /\ Len(ind.atr_values) > AtrPeriod
    /\ Sub(ATR_calculate_takeprofit(ind, R(2), "LONG", R(2), Frac(3, 2)), R(2))
           = Mul(ATR_value(ind), R(3))
    /\ Gt(ATR_calculate_takeprofit(ind, R(2), "LONG", R(2), Frac(3, 2)), R(2))

\* C15: while an ATRIndicator holds fewer than period bars its value is
\* None, and whenever its value is None get_stoploss_distance,
\* calculate_stoploss and calculate_takeprofit return None for every entry
\* price, side, multiplier and ratio.
C15_UndefinedAtr ==
    unit = "atr" =>
        /\ (Len(ind.highs) < AtrPeriod /\ Len(ind.lows) < AtrPeriod
               /\ Len(ind.closes) < AtrPeriod) => IsNone(ATR_value(ind))
        /\ IsNone(ATR_value(ind)) =>
               \A entry \in EntryPrices, m \in Multipliers, rr \in RiskRewards :
                   \A side \in LongSides \cup ShortSides :
                       /\ IsNone(ATR_get_stoploss_distance(ind, m))
                       /\ IsNone(ATR_calculate_stoploss(ind, entry, side, m))
                       /\ IsNone(ATR_calculate_takeprofit(ind, entry, side, rr, m))

\* one bar received, one short of the period: the three methods answer None
C15_Witness ==
    /\ unit = "atr" /\ ~raised
    /\ Len(ind.highs) = AtrPeriod - 1 /\ Len(ind.atr_values) = AtrPeriod - 1
    /\ IsNone(ATR_value(ind))
    /\ IsNone(ATR_calculate_stoploss(ind, R(2), "LONG", Frac(3, 2)))

OiRose(o) ==
    Len(o.oi_history) >= 2 /\ Gt(Last(o.oi_history), o.oi_history[Len(o.oi_history) - 1])
PriceRose(o) ==
    Len(o.price_history) >= 2
        /\ Gt(Last(o.price_history), o.price_history[Len(o.price_history) - 1])
PriceFell(o) ==
    Len(o.price_history) >= 2
        /\ Lt(Last(o.price_history), o.price_history[Len(o.price_history) - 1])

\* C16: get_signal reports confirmation BULLISH when the latest open-interest
\* reading is above the previous one and the price rose, BEARISH when it is
\* above the previous one and the price fell, and NEUTRAL whenever open
\* interest did not rise, whatever the price did.
C16_Confirmation ==
    unit = "oi" =>
        /\ (OiRose(ind) /\ PriceRose(ind)) => OI_get_signal(ind).confirmation = "BULLISH"
        /\ (OiRose(ind) /\ PriceFell(ind)) => OI_get_signal(ind).confirmation = "BEARISH"
        /\ ~OiRose(ind) => OI_get_signal(ind).confirmation = "NEUTRAL"

\* the trailing lookback_period readings are all equal: their standard deviation is 0
FlatWindow(history, lookback_period) ==
    \A i \in 1..Len(history) :
        i > Len(history) - lookback_period => history[i] = Last(history)

\* C17: both analyzers report z_score = 0 whenever fewer than
\* lookback_period readings are held or the trailing lookback_period
\* readings have zero standard deviation; so below lookback_period readings
\* OI is_extreme is false and a funding extreme comes from the
\* absolute-rate threshold alone.
C17_NeutralZScore ==
    /\ unit = "oi" =>
           /\ (Len(ind.oi_history) < ind.lookback_period
                  \/ FlatWindow(ind.oi_history, ind.lookback_period))
                 => OI_get_signal(ind).z_score = R(0)
           /\ Len(ind.oi_history) < ind.lookback_period => ~OI_get_signal(ind).is_extreme
    /\ unit = "funding" =>
           /\ (Len(ind.funding_history) < ind.lookback_period
                  \/ FlatWindow(ind.funding_history, ind.lookback_period))
                 => Funding_get_signal(ind).z_score = R(0)
           /\ (ind.funding_history # <<>> /\ Len(ind.funding_history) < ind.lookback_period)
                 => /\ Funding_get_signal(ind).is_extreme_positive
                          <=> Gt(Last(ind.funding_history), ind.extreme_threshold_rate)
                    /\ Funding_get_signal(ind).is_extreme_negative
                          <=> Lt(Last(ind.funding_history),
                                 Sub(R(0), ind.extreme_threshold_rate))

\* two different funding rates held, one short of the window, the latest within
\* the rate threshold: z_score 0 and no extreme
C17_Witness ==
    /\ unit = "funding"
    /\ Len(ind.funding_history) = 2 /\ ind.lookback_period = 3
    /\ ind.funding_history[1] # ind.funding_history[2]
    /\ Funding_get_signal(ind).z_score = R(0)
    /\ ~Funding_get_signal(ind).is_extreme_positive
    /\ ~Funding_get_signal(ind).is_extreme_negative
    /\ Funding_get_signal(ind).rate = R(2)

\* C18: get_signal sets is_extreme_positive iff z_score > extreme_threshold_z
\* or the latest rate > extreme_threshold_rate, is_extreme_negative iff
\* z_score < -extreme_threshold_z or the latest rate < -extreme_threshold_rate;
\* squeeze_risk is LONG_SQUEEZE on extreme positive, SHORT_SQUEEZE on extreme
\* negative and NONE otherwise, and an extreme yields the matching
\* LONG_HEAVY / SHORT_HEAVY sentiment.
C18_FundingExtremes ==
    (unit = "funding" /\ ind.funding_history # <<>>) =>
        /\ Funding_get_signal(ind).is_extreme_positive
              <=> \/ Gt(ZScoreSq(ind.funding_history, ind.lookback_period),
                        Square(ind.extreme_threshold_z))
                  \/ Gt(Last(ind.funding_history), ind.extreme_threshold_rate)
        /\ Funding_get_signal(ind).is_extreme_negative
              <=> \/ Lt(ZScoreSq(ind.funding_history, ind.lookback_period),
                        Sub(R(0), Square(ind.extreme_threshold_z)))
                  \/ Lt(Last(ind.funding_history), Sub(R(0), ind.extreme_threshold_rate))
        /\ Funding_get_signal(ind).is_extreme_positive
              => /\ Funding_get_signal(ind).squeeze_risk = "LONG_SQUEEZE"
                 /\ Funding_get_signal(ind).sentiment = "LONG_HEAVY"
        /\ Funding_get_signal(ind).is_extreme_negative
              => /\ Funding_get_signal(ind).squeeze_risk = "SHORT_SQUEEZE"
                 /\ Funding_get_signal(ind).sentiment = "SHORT_HEAVY"
        /\ (~Funding_get_signal(ind).is_extreme_positive
               /\ ~Funding_get_signal(ind).is_extreme_negative)
              => Funding_get_signal(ind).squeeze_risk = "NONE"

\* C19: an update carrying a non-positive price, and an ATR batch whose
\* high, low and close lists differ in length, leave the indicator's raw
\* and derived state exactly as it was and raise nothing.
C19_InvalidInputNoOp ==
    [][/\ \A p \in InvalidPrices : RsiUpdate(p) => (ind' = ind /\ ~raised')
       /\ (AtrBatch /\ Len(log'.lows) # Len(log'.highs)) => (ind' = ind /\ ~raised')]_vars

\* ------------------------------------------------------------------------
\* TradingBot  (src/main.py): the callbacks of the feed around the engine
\* ------------------------------------------------------------------------
MaxBotKlines == 4      \* klines the feed delivers for one symbol
MaxClosed == 2         \* of them, klines that close their candle
MaxBotTickers == 1     \* tickers the feed delivers for one symbol

MaxPositionsPerSymbol == 1

\* Signal.is_actionable and Signal.side
Signal_is_actionable(signal) == signal.signal_type \in {"LONG", "SHORT"}
Signal_side(signal) == signal.signal_type

can_open_position(positions, symbol) == Len(positions[symbol]) < MaxPositionsPerSymbol

get_position_side(positions, symbol) ==
    IF positions[symbol] # <<>> THEN positions[symbol][1] ELSE "None"

\* the klines of the feed: a closed candle at either price, or one still
\* forming (confirm false)
FormingPrices == {2}
BotKlines ==
    {[high |-> R(c), low |-> R(c), close |-> R(c), confirm |-> TRUE] : c \in KlinePrices}
        \cup {[high |-> R(c), low |-> R(c), close |-> R(c), confirm |-> FALSE] :
                  c \in FormingPrices}

InitBot ==
    /\ symbols = [s \in ConfigSymbols |-> SymbolState]
    /\ now = StartTime
    /\ cfg = DefaultConfig
    /\ result = NoSignal
    /\ fired = [s \in EvalSymbols |-> 0]
    /\ unit = "engine" /\ ind = NoInstance /\ log = <<>> /\ raised = FALSE
    /\ status = NoStatus /\ scored = NotScored
    /\ bot \in [running : {TRUE}, dry_run : BOOLEAN,
                 tasks : {<<>>},
                 positions : {[s \in ConfigSymbols |-> <<>>]},
                 closed : {[s \in ConfigSymbols |-> 0]},
                 evaluated : {[s \in ConfigSymbols |-> 0]},
                 opened : {[s \in ConfigSymbols |-> 0]},
                 fresh : {<<>>}]

\* bot.fresh is a history of the model: for each pending task, whether the
\* engine has received no update for the task's symbol since _on_kline
\* created it. Overtaken: the flags after one more update for symbol s.
Overtaken(b, s) ==
    [i \in 1..Len(b.fresh) |-> IF b.tasks[i] = s THEN FALSE ELSE b.fresh[i]]

\* variant: every kline schedules an evaluation
_on_kline_every_kline(tasks, symbol, kline) == Append(tasks, symbol)

\* the tasks pending after _on_kline: create_task(_evaluate_signal_async(symbol))
\* on a confirmed kline only
_on_kline(tasks, symbol, kline) ==
    IF kline.confirm THEN Append(tasks, symbol) ELSE tasks

OnKline(s, kline) ==
    /\ bot.running
    /\ Len(StateOf(symbols, s).ema.prices) < MaxBotKlines
    /\ kline.confirm => bot.closed[s] < MaxClosed
    /\ symbols' = update_kline(symbols, s, kline)
    /\ bot' = [bot EXCEPT !.tasks = _on_kline(bot.tasks, s, kline),
                          !.closed[s] = IF kline.confirm THEN @ + 1 ELSE @,
                          !.fresh = IF Len(_on_kline(bot.tasks, s, kline)) > Len(bot.tasks)
                                    THEN Append(Overtaken(bot, s), TRUE)
                                    ELSE Overtaken(bot, s)]
    /\ result' = NoSignal
    /\ UNCHANGED <<now, cfg, fired, indVars, scoreVars>>

\* _on_ticker
OnTicker(ticker) ==
    /\ bot.running
    /\ Len(StateOf(symbols, ticker.symbol).oi.oi_history) < MaxBotTickers
    /\ symbols' = update_ticker(symbols, ticker)
    /\ bot' = [bot EXCEPT !.fresh = Overtaken(bot, ticker.symbol)]
    /\ result' = NoSignal
    /\ UNCHANGED <<now, cfg, fired, indVars, scoreVars>>

\* whether executor.execute is reached for the signal evaluate returned:
\* it is actionable and not on the side of a position already tracked
Executes(positions, s, signal) ==
    /\ Signal_is_actionable(signal)
    /\ get_position_side(positions, s) # Signal_side(signal)

\* what executor.execute can return as result.success: a dry run always
\* succeeds, a live order succeeds or fails with the exchange
Outcomes(dry_run) == IF dry_run THEN {TRUE} ELSE BOOLEAN

\* the bot after the task for s has run with signal `signal` and, if it came
\* to that, execute has returned success = ok: the position is tracked in
\* dry-run mode only; `opened` counts the positions the bot has opened
TaskDone(b, s, signal, ok) ==
    [b EXCEPT
        !.tasks = Tail(@),
        !.fresh = Tail(@),
        !.evaluated[s] = @ + 1,
        !.positions[s] = IF Executes(b.positions, s, signal) /\ ok /\ b.dry_run
                         THEN Append(@, Signal_side(signal)) ELSE @,
        !.opened[s] = IF Executes(b.positions, s, signal) /\ ok THEN @ + 1 ELSE @]

\* the rest of _evaluate_signal_async once evaluate(s) has returned r
Evaluated(s, r) ==
    /\ result' = r.signal
    /\ symbols' = r.symbols
    /\ fired' = IF r.signal.signal_type \in {"LONG", "SHORT"}
                THEN [fired EXCEPT ![s] = now] ELSE fired
    /\ \E ok \in Outcomes(bot.dry_run) : bot' = TaskDone(bot, s, r.signal, ok)
    /\ UNCHANGED <<now, cfg, indVars, scoreVars>>

\* the event loop runs the oldest pending _evaluate_signal_async task
RunTask ==
    /\ bot.running
    /\ bot.tasks # <<>>
    /\ IF can_open_position(bot.positions, Head(bot.tasks))
       THEN Evaluated(Head(bot.tasks), evaluate(symbols, Head(bot.tasks), now, cfg))
       ELSE /\ bot' = [bot EXCEPT !.tasks = Tail(@), !.fresh = Tail(@)]
            /\ result' = NoSignal
            /\ UNCHANGED <<symbols, fired, now, cfg, indVars, scoreVars>>

\* A second passes. The callbacks of the feed do not read the clock, so it
\* is advanced only while a task that will read it is pending.
BotTick == bot.tasks # <<>> /\ Tick

NextBot ==
    \/ \E s \in ConfigSymbols, kline \in BotKlines : OnKline(s, kline)
    \/ \E s \in ConfigSymbols : \E ticker \in Tickers(s) : OnTicker(ticker)
    \/ RunTask
    \/ BotTick

SpecBot == InitBot /\ [][NextBot]_vars

\* the pending tasks for symbol s
Pending(s) == Len(SelectSeq(bot.tasks, LAMBDA t : t = s))

SignalStamps(syms) ==
    [s \in DOMAIN syms |-> <<syms[s].last_signal_time, syms[s].last_signal_type>>]

\* C20: engine.evaluate(symbol) is called only by a task that a kline with
\* confirm = true created; a kline with confirm = false updates the
\* indicators but schedules nothing, returns no Signal and leaves
\* last_signal_time and last_signal_type as they were.
C20_ClosedCandlesOnly ==
    /\ [][\A s \in ConfigSymbols : \A kline \in BotKlines :
            (~kline.confirm /\ bot'.closed = bot.closed /\ symbols' # symbols
               /\ OnKline(s, kline))
                => /\ bot'.tasks = bot.tasks
                   /\ bot'.evaluated = bot.evaluated
                   /\ result' = NoSignal
                   /\ SignalStamps(symbols') = SignalStamps(symbols)]_vars
    /\ [][(bot'.evaluated # bot.evaluated \/ SignalStamps(symbols') # SignalStamps(symbols))
            => /\ bot.tasks # <<>>
               /\ bot'.tasks = Tail(bot.tasks)
               /\ bot'.evaluated[Head(bot.tasks)] = bot.evaluated[Head(bot.tasks)] + 1]_vars
    /\ [](\A s \in ConfigSymbols : bot.evaluated[s] + Pending(s) <= bot.closed[s])

\* four klines of forming candles have made the indicators ready and a
\* direction is met, yet nothing was scheduled or evaluated
C20_Witness ==
    /\ bot.running
    /\ bot.closed["A"] = 0 /\ bot.tasks = <<>> /\ bot.evaluated["A"] = 0
    /\ AllReady(symbols["A"])
    /\ LongMet(symbols["A"]) \/ ShortMet(symbols["A"])
    /\ symbols["A"].last_signal_time = 0

\* ------------------------------------------------------------------------
\* Two symbols on one engine
\* ------------------------------------------------------------------------
MaxPairTickers == 1    \* tickers fed to one symbol of the two

\* "A" is configured; "B" is met first in the feed and set up by _init_symbol
PairSymbols == ConfigSymbols \cup {"B"}

\* the feed of each symbol: flat candles and one kind of ticker, at a price
\* and with readings of its own, so that a value of one symbol that turned up
\* in the other's state would show
PairPrice(s) == IF s \in ConfigSymbols THEN 1 ELSE 2
PairReading(s) == IF s \in ConfigSymbols THEN <<1, 10>> ELSE <<2, -10>>

PairKlines(s) ==
    {[high |-> R(PairPrice(s)), low |-> R(PairPrice(s)), close |-> R(PairPrice(s))]}

PairTickers(s) ==
    {[symbol |-> s, last_price |-> R(p), open_interest |-> R(PairReading(s)[1]),
      funding_rate |-> R(PairReading(s)[2])] : p \in TickerPrices}

PairWarmups(s) == {<<>>} \cup {<<kline>> : kline \in PairKlines(s)}

InitPair ==
    /\ symbols = [s \in ConfigSymbols |-> SymbolState]
    /\ now = StartTime
    /\ cfg \in Configs
    /\ result = NoSignal
    /\ fired = [s \in PairSymbols |-> 0]
    /\ unit = "engine" /\ ind = NoInstance /\ log = <<>> /\ raised = FALSE
    /\ status = NoStatus /\ scored = NotScored
    /\ bot = NoBot

PairTicker(ticker) ==
    /\ Len(StateOf(symbols, ticker.symbol).oi.oi_history) < MaxPairTickers
    /\ UpdateTicker(ticker)

\* The clock stands still here: a stamp left on another symbol shows at once.
NextPair ==
    \/ \E s \in PairSymbols : \E kline \in PairKlines(s) : UpdateKline(s, kline)
    \/ \E s \in PairSymbols : \E ticker \in PairTickers(s) : PairTicker(ticker)
    \/ \E s \in PairSymbols : \E klines \in PairWarmups(s) : UpdateBatch(s, klines)
    \/ \E s \in PairSymbols : Evaluate(s)

SpecPair == InitPair /\ [][NextPair]_vars

\* the registry holds for every symbol but s what it held before
OthersUnchanged(s) ==
    /\ DOMAIN symbols' \subseteq DOMAIN symbols \cup {s}
    /\ \A t \in DOMAIN symbols \ {s} : t \in DOMAIN symbols' /\ symbols'[t] = symbols[t]

\* C21: update_kline, update_ticker, update_batch and evaluate for one symbol
\* leave every other symbol's SymbolState as it was, and a symbol carries a
\* cooldown stamp only from a LONG or SHORT returned for that very symbol.
C21_SymbolIndependence ==
    /\ [][symbols' # symbols =>
            \A s \in PairSymbols :
               (\/ \E kline \in PairKlines(s) : UpdateKline(s, kline)
                \/ \E ticker \in PairTickers(s) : PairTicker(ticker)
                \/ \E klines \in PairWarmups(s) : UpdateBatch(s, klines)
                \/ Evaluate(s))
                   => OthersUnchanged(s)]_vars
    /\ [](\A s \in DOMAIN symbols : symbols[s].last_signal_time = fired[s])

\* "B" was given a LONG or SHORT while "A" was inside its cooldown
C21_Witness ==
    /\ result.signal_type \in {"LONG", "SHORT"}
    /\ result.symbol = "B"
    /\ fired["A"] # 0 /\ now - fired["A"] < TradeCooldown
    /\ symbols["A"].last_signal_time = fired["A"]
    /\ symbols["B"].last_signal_time = now

\* ------------------------------------------------------------------------
\* Frames of the engine's operations
\* ------------------------------------------------------------------------
SameIndicators(a, b) ==
    /\ b.ema = a.ema /\ b.rsi = a.rsi /\ b.macd = a.macd /\ b.atr = a.atr

SameStamp(a, b) ==
    /\ b.last_signal_time = a.last_signal_time
    /\ b.last_signal_type = a.last_signal_type

\* an update of the registry, as opposed to an evaluation or a tick of the clock
IsUpdate == result' = NoSignal /\ now' = now /\ symbols' # symbols

\* C22: update_ticker changes, of the ticker's symbol, the last price, the OI
\* readings and the funding history only - no indicator, not the OI price
\* history, not the cooldown stamp; update_kline changes the last price, the
\* four indicators and the OI price history only - not the OI readings, the
\* funding history or the cooldown stamp.
C22_EventFrames ==
    [][IsUpdate =>
         \A s \in ConfigSymbols :
            /\ \A ticker \in Tickers(s) :
                  \/ /\ SameIndicators(symbols[s], symbols'[s])
                     /\ SameStamp(symbols[s], symbols'[s])
                     /\ symbols'[s].oi.price_history = symbols[s].oi.price_history
                  \/ ~UpdateTicker(ticker)
            /\ \A kline \in Klines :
                  \/ /\ SameStamp(symbols[s], symbols'[s])
                     /\ symbols'[s].oi.oi_history = symbols[s].oi.oi_history
                     /\ symbols'[s].funding = symbols[s].funding
                  \/ ~UpdateKline(s, kline)]_vars

\* klines and a ticker have both arrived after a signal: the indicators and
\* the OI price history hold the klines, the readings hold the ticker, the
\* stamp is the signal's
C22_Witness ==
    \E s \in DOMAIN symbols :
       /\ Len(symbols[s].ema.prices) = MaxKlines
       /\ Len(symbols[s].oi.price_history) = MaxKlines
       /\ Len(symbols[s].oi.oi_history) = 1
       /\ Len(symbols[s].funding.funding_history) = 1
       /\ symbols[s].last_signal_time # 0
       /\ symbols[s].last_signal_time = fired[s]
       /\ result = NoSignal

\* ------------------------------------------------------------------------
\* The engine on a rising market
\* ------------------------------------------------------------------------
MaxClose == 7          \* the highest close of the rising series
MaxTrendTickers == 2   \* tickers fed along with it

FirstCloses == {1, 2}
Steps == {1, 2}
\* the one (open interest, funding rate) reading every ticker repeats
TrendReadings == {<<1, f>> : f \in FundingRates}

\* the shortest series that is longer than every configured period and has
\* every indicator ready
TrendLength == MacdSlow + MacdSignal - 1

FlatKline(c) == [high |-> R(c), low |-> R(c), close |-> R(c)]

InitTrend ==
    /\ symbols = [s \in ConfigSymbols |-> SymbolState]
    /\ now = StartTime
    /\ cfg \in {CHOOSE c \in Configs : TRUE}
    /\ result = NoSignal
    /\ fired = [s \in EvalSymbols |-> 0]
    /\ unit = "engine" /\ ind = NoInstance /\ log = <<>> /\ raised = FALSE
    /\ status = NoStatus /\ scored = NotScored
    /\ bot = NoBot

\* update_kline with a close above the last one
TrendKline(s, c) ==
    /\ c <= MaxClose
    /\ IF symbols[s].ema.prices = <<>> THEN c \in FirstCloses
       ELSE \E step \in Steps : R(c) = Add(Last(symbols[s].ema.prices), R(step))
    /\ symbols' = update_kline(symbols, s, FlatKline(c))
    /\ scored' = NotScored
    /\ UNCHANGED <<now, cfg, result, fired, indVars, status, botVars>>

\* update_ticker with the reading the symbol's tickers have carried so far
TrendTicker(s, r) ==
    /\ Len(symbols[s].oi.oi_history) < MaxTrendTickers
    /\ IF symbols[s].oi.oi_history = <<>> THEN TRUE
       ELSE /\ Last(symbols[s].oi.oi_history) = R(r[1])
            /\ Last(symbols[s].funding.funding_history) = R(r[2])
    /\ symbols' = update_ticker(symbols, [symbol |-> s, last_price |-> symbols[s].last_price,
                                          open_interest |-> R(r[1]), funding_rate |-> R(r[2])])
    /\ scored' = NotScored
    /\ UNCHANGED <<now, cfg, result, fired, indVars, status, botVars>>

\* the two scorers on the IndicatorStatus of the symbol
TrendScore(s) ==
    /\ ~scored.done
    /\ scored' = [done |-> TRUE, symbol |-> s,
                  long |-> _calculate_long_score(_evaluate_indicators(symbols[s])),
                  short |-> _calculate_short_score(_evaluate_indicators(symbols[s]))]
    /\ UNCHANGED <<engineVars, indVars, status, botVars>>

NextTrend ==
    \/ \E s \in ConfigSymbols, c \in 1..MaxClose : TrendKline(s, c)
    \/ \E s \in ConfigSymbols, r \in TrendReadings : TrendTicker(s, r)
    \/ \E s \in ConfigSymbols : TrendScore(s)

SpecTrend == InitTrend /\ [][NextTrend]_vars

\* C23: once a strictly increasing series of closes longer than every
\* configured period has been fed through update_kline, open interest and
\* funding constant or never reported, the LONG score is above the SHORT score.
C23_UptrendFavoursLong ==
    scored.done
       => (Len(symbols[scored.symbol].ema.prices) >= TrendLength
              => scored.long.score > scored.short.score)

\* ------------------------------------------------------------------------
\* The indicators on a trend
\* ------------------------------------------------------------------------
Rising(series) == \A i \in 1..(Len(series) - 1) : Lt(series[i], series[i + 1])
Falling(series) == \A i \in 1..(Len(series) - 1) : Gt(series[i], series[i + 1])

\* C24: after update() calls with a strictly increasing series of at least
\* slow_period + signal_period - 1 prices, is_ready() and is_bullish() are
\* true: the MACD line is strictly above the signal line.
C24_MacdUptrend ==
    [][unit = "macd" =>
         \A p \in TrendPrices :
            (/\ Len(log.prices) + 1 >= MacdSlow + MacdSignal - 1
             /\ Rising(Append(log.prices, R(p)))
             /\ MacdUpdate(p))
                => MACD_is_ready(ind') /\ MACD_is_bullish(ind')]_vars

\* C25: with fast_period < slow_period, an EMA that has received at least
\* slow_period strictly increasing prices is ready and bullish, one that has
\* received as many strictly decreasing prices is ready and bearish;
\* is_bullish() and is_bearish() are never both true, and both are false
\* while the indicator is not ready.
C25_EmaTrend ==
    unit = "ema"
       => /\ (Len(log.prices) >= EmaSlow /\ Rising(log.prices))
                => EMA_is_ready(ind) /\ EMA_is_bullish(ind)
          /\ (Len(log.prices) >= EmaSlow /\ Falling(log.prices))
                => EMA_is_ready(ind) /\ EMA_is_bearish(ind)
          /\ ~(EMA_is_bullish(ind) /\ EMA_is_bearish(ind))
          /\ ~EMA_is_ready(ind) => (~EMA_is_bullish(ind) /\ ~EMA_is_bearish(ind))

\* update() calls with a rising series longer than the slow period
C25_Witness ==
    /\ unit = "ema"
    /\ Len(log.prices) > EmaSlow /\ Rising(log.prices)
    /\ IsNum(ind.prev_fast) /\ IsNum(ind.prev_slow)
    /\ EMA_is_bullish(ind) /\ ~EMA_is_bearish(ind)

\* ------------------------------------------------------------------------
\* Positions opened by the bot
\* ------------------------------------------------------------------------
\* C26: in dry-run and in live mode, executor.execute is never called for a
\* symbol on which the bot has already opened max_positions_per_symbol
\* positions, so the bot never opens more than that on one symbol.
C26_MaxPositions ==
    \A s \in ConfigSymbols : bot.opened[s] <= MaxPositionsPerSymbol

\* ------------------------------------------------------------------------
\* What evaluate writes
\* ------------------------------------------------------------------------
\* everything of a SymbolState but the cooldown stamp
SameData(a, b) ==
    /\ SameIndicators(a, b)
    /\ b.oi = a.oi /\ b.funding = a.funding /\ b.last_price = a.last_price

\* C27: evaluate(symbol) changes no indicator, no analyzer and no last price;
\* it sets last_signal_type to the direction and last_signal_time to the
\* current time when it returns LONG or SHORT, and on every NEUTRAL answer
\* (cooldown, warming up, confluence too low, unknown symbol) the registry is
\* left exactly as it was.
C27_EvaluateFrame ==
    [][result' # NoSignal =>
         \A s \in PairSymbols :
            Evaluate(s)
               => /\ DOMAIN symbols' = DOMAIN symbols
                  /\ \A t \in DOMAIN symbols : SameData(symbols[t], symbols'[t])
                  /\ IF result'.signal_type \in {"LONG", "SHORT"}
                     THEN /\ symbols'[s].last_signal_type = result'.signal_type
                          /\ symbols'[s].last_signal_time = now
                     ELSE symbols' = symbols]_vars

\* the answer for a symbol the engine has not met, given after another
\* symbol's signal left its stamp
C27_Witness ==
    /\ result.signal_type = "NEUTRAL"
    /\ result.symbol \notin DOMAIN symbols
    /\ \E t \in DOMAIN symbols :
          /\ symbols[t].last_signal_time = now
          /\ symbols[t].last_signal_type \in {"LONG", "SHORT"}
          /\ symbols[t].ema.prices # <<>>

\* ------------------------------------------------------------------------
\* The Signal returned
\* ------------------------------------------------------------------------
\* C28: every LONG or SHORT Signal has entry_price = last_price and defined
\* stoploss and takeprofit prices, the stop strictly below and the target
\* strictly above the entry for LONG and the reverse for SHORT; every NEUTRAL
\* Signal has confluence_score 0 and indicators_aligned 0.
C28_WellFormedSignals ==
    /\ result.signal_type = "NEUTRAL"
          => result.confluence_score = 0 /\ result.indicators_aligned = 0
    /\ result.signal_type \in {"LONG", "SHORT"}
          => /\ result.entry_price = symbols[result.symbol].last_price
             /\ ~IsNone(result.stoploss_price) /\ ~IsNone(result.takeprofit_price)
             /\ IF result.signal_type = "LONG"
                THEN /\ Lt(result.stoploss_price, result.entry_price)
                     /\ Lt(result.entry_price, result.takeprofit_price)
                ELSE /\ Lt(result.entry_price, result.stoploss_price)
                     /\ Lt(result.takeprofit_price, result.entry_price)

\* ------------------------------------------------------------------------
\* Recomputation over the retained window against the running recurrence
\* ------------------------------------------------------------------------
\* the instance after update() was called with each of the inputs in turn
RECURSIVE EmaUpdates(_, _)
EmaUpdates(e, prices) ==
    IF prices = <<>> THEN e ELSE EmaUpdates(EMA_update(e, Head(prices)), Tail(prices))

RECURSIVE RsiUpdates(_, _)
RsiUpdates(r, prices) ==
    IF prices = <<>> THEN r ELSE RsiUpdates(RSI_update(r, Head(prices)), Tail(prices))

RECURSIVE AtrUpdates(_, _, _, _)
AtrUpdates(a, highs, lows, closes) ==
    IF highs = <<>> THEN a
    ELSE AtrUpdates(ATR_update(a, Head(highs), Head(lows), Head(closes)),
                    Tail(highs), Tail(lows), Tail(closes))

\* C29: for every sequence of update() calls, also one longer than the cap,
\* the current EMA, RSI and ATR values recomputed over the retained window
\* equal the values of the recurrence seeded once from the first `period`
\* inputs ever received and advanced one step per update.
C29_RecomputeIsIncremental ==
    /\ unit = "ema"
          => LET e == EmaUpdates(EMAIndicator, log.prices)
             IN /\ EMA_fast_value(e) = CurrentOf(calculate_ema(log.prices, EmaFast))
                /\ EMA_slow_value(e) = CurrentOf(calculate_ema(log.prices, EmaSlow))
    /\ unit = "rsi"
          => RSI_value(RsiUpdates(RSIIndicator, log.prices))
                = CurrentOf(calculate_rsi(log.prices, RsiPeriod))
    /\ unit = "atr" /\ ~TrueRangeRaises(log.highs, log.lows, log.closes)
          => ATR_value(AtrUpdates(ATRIndicator, log.highs, log.lows, log.closes))
                = CurrentOf(calculate_atr(log.highs, log.lows, log.closes, AtrPeriod))

\* ------------------------------------------------------------------------
\* What each direction is credited for
\* ------------------------------------------------------------------------
\* whether a scorer counts the EMA / the MACD as aligned on this status: its
\* count against the count on the status with that indicator's flags set to
\* what earns no credit from it
ShortEmaCredit(st) ==
    _calculate_short_score(st).aligned
        > _calculate_short_score([st EXCEPT !.ema_bullish = TRUE]).aligned
ShortMacdCredit(st) ==
    _calculate_short_score(st).aligned
        > _calculate_short_score([st EXCEPT !.macd_bullish = TRUE]).aligned
LongEmaCredit(st) ==
    _calculate_long_score(st).aligned
        > _calculate_long_score([st EXCEPT !.ema_bullish = FALSE,
                                           !.ema_crossover = FALSE]).aligned
LongMacdCredit(st) ==
    _calculate_long_score(st).aligned
        > _calculate_long_score([st EXCEPT !.macd_bullish = FALSE,
                                           !.macd_crossover = FALSE]).aligned

\* C30: on the status built from a symbol whose indicators are ready, the
\* SHORT score receives the EMA contribution only when the fast EMA is
\* strictly below the slow one and the MACD contribution only when the MACD
\* line is strictly below the signal line; when fast = slow or MACD = signal
\* neither score receives that indicator's contribution.
C30_ShortNeedsBearish ==
    \A s \in DOMAIN symbols :
       LET state == symbols[s]
           st == _evaluate_indicators(state)
       IN _indicators_ready(state)
             => /\ ShortEmaCredit(st) => EMA_is_bearish(state.ema)
                /\ ShortMacdCredit(st) => MACD_is_bearish(state.macd)
                /\ EMA_fast_value(state.ema) = EMA_slow_value(state.ema)
                      => ~LongEmaCredit(st) /\ ~ShortEmaCredit(st)
                /\ MACD_macd(state.macd) = MACD_signal(state.macd)
                      => ~LongMacdCredit(st) /\ ~ShortMacdCredit(st)

\* ------------------------------------------------------------------------
\* A price that does not move
\* ------------------------------------------------------------------------
\* every candle the symbol holds has open = high = low = close at one price,
\* and no ticker has arrived for it
ConstantStream(state) ==
    /\ state.oi.oi_history = <<>> /\ state.funding.funding_history = <<>>
    /\ state.atr.closes # <<>>
    /\ \A i \in 1..Len(state.atr.closes) :
          /\ state.atr.highs[i] = state.atr.closes[1]
          /\ state.atr.lows[i] = state.atr.closes[1]
          /\ state.atr.closes[i] = state.atr.closes[1]

\* C31: with the default configuration, evaluate never returns a LONG or
\* SHORT signal for a symbol whose candles all have the same open = high =
\* low = close and that has received no ticker.
C31_NoSignalWithoutMovement ==
    result.signal_type \in {"LONG", "SHORT"} /\ cfg = DefaultConfig
       => ~ConstantStream(symbols[result.symbol])

\* ------------------------------------------------------------------------
\* One source, one direction
\* ------------------------------------------------------------------------
Sources == {"ema", "rsi", "macd", "oi", "funding"}

\* the fields of IndicatorStatus each source fills
FieldsOf(src) ==
    CASE src = "ema" -> {"ema_bullish", "ema_crossover"}
      [] src = "rsi" -> {"rsi_oversold", "rsi_overbought", "rsi_recovering", "rsi_falling"}
      [] src = "macd" -> {"macd_bullish", "macd_crossover", "macd_histogram_rising"}
      [] src = "oi" -> {"oi_rising", "oi_confirmation"}
      [] src = "funding" -> {"funding_sentiment", "funding_squeeze_risk"}

\* a status on which _calculate_long_score counts no source as aligned, and
\* one on which _calculate_short_score counts none
NothingForLong ==
    [ema_bullish |-> FALSE, ema_crossover |-> FALSE,
     rsi_oversold |-> FALSE, rsi_overbought |-> FALSE,
     rsi_recovering |-> FALSE, rsi_falling |-> FALSE,
     macd_bullish |-> FALSE, macd_crossover |-> FALSE, macd_histogram_rising |-> FALSE,
     oi_rising |-> FALSE, oi_confirmation |-> "NEUTRAL",
     funding_sentiment |-> "NEUTRAL", funding_squeeze_risk |-> "NONE"]
NothingForShort ==
    [NothingForLong EXCEPT !.ema_bullish = TRUE, !.macd_bullish = TRUE]

\* st with every source but src blanked out
Only(st, src, blank) ==
    [f \in DOMAIN st |-> IF f \in FieldsOf(src) THEN st[f] ELSE blank[f]]

\* whether the scorer of a direction counts src as aligned on st
LongAligned(st, src) == _calculate_long_score(Only(st, src, NothingForLong)).aligned = 1
ShortAligned(st, src) == _calculate_short_score(Only(st, src, NothingForShort)).aligned = 1

\* C32: on every IndicatorStatus built from a reachable SymbolState each of
\* the five sources counts as aligned for at most one direction, so
\* long_aligned + short_aligned <= 5, and with the default thresholds the
\* LONG and the SHORT conditions are never both met.
C32_ExclusiveDirections ==
    \A s \in DOMAIN symbols :
       LET st == _evaluate_indicators(symbols[s])
           long == _calculate_long_score(st)
           short == _calculate_short_score(st)
       IN /\ \A src \in Sources : ~(LongAligned(st, src) /\ ShortAligned(st, src))
          /\ long.aligned + short.aligned <= 5
          /\ ~(MeetsThresholds(long, DefaultConfig) /\ MeetsThresholds(short, DefaultConfig))

\* a ready symbol with sources aligned on both sides
C32_Witness ==
    \E s \in DOMAIN symbols :
       LET st == _evaluate_indicators(symbols[s])
       IN /\ _indicators_ready(symbols[s])
          /\ symbols[s].oi.oi_history # <<>>
          /\ \E a, b \in Sources : LongAligned(st, a) /\ ShortAligned(st, b)
          /\ _calculate_long_score(st).aligned + _calculate_short_score(st).aligned >= 4

\* ------------------------------------------------------------------------
\* The three MACD series
\* ------------------------------------------------------------------------
\* 1-based positions of the first defined MACD and signal entries
FirstMacd == MacdSlow
FirstSignal == MacdSlow + MacdSignal - 1

\* C33: calculate_macd returns three lists as long as the input; the MACD
\* line is fast EMA - slow EMA where both are defined and NaN elsewhere; the
\* signal line is the EMA(signal_period) of the defined MACD values put back
\* in place, first defined at index slow_period + signal_period - 2; the
\* histogram is MACD - signal where both are defined; is_ready() is true iff
\* at least slow_period + signal_period - 1 prices are held.
C33_MacdConstruction ==
    unit = "macd"
       => LET prices == log.prices
              n == Len(prices)
              c == calculate_macd(prices, MacdFast, MacdSlow, MacdSignal)
              fast == calculate_ema(prices, MacdFast)
              slow == calculate_ema(prices, MacdSlow)
              defined == IF n < FirstMacd THEN <<>> ELSE SubSeq(c.macd_line, FirstMacd, n)
              smoothed == calculate_ema(defined, MacdSignal)
          IN /\ Len(c.macd_line) = n /\ Len(c.signal_line) = n /\ Len(c.histogram) = n
             /\ \A i \in 1..n :
                   /\ c.macd_line[i] = IF i >= FirstMacd THEN Sub(fast[i], slow[i]) ELSE NaN
                   /\ IsNum(c.macd_line[i]) <=> i >= FirstMacd
                   /\ c.signal_line[i] = IF i >= FirstSignal
                                         THEN smoothed[i - FirstMacd + 1] ELSE NaN
                   /\ IsNum(c.signal_line[i]) <=> i >= FirstSignal
                   /\ c.histogram[i] = IF i >= FirstSignal
                                       THEN Sub(c.macd_line[i], c.signal_line[i]) ELSE NaN
             /\ MACD_is_ready(ind) <=> Len(ind.prices) >= FirstSignal

\* a ready MACD whose inputs outnumber the warm-up and whose lines differ
C33_Witness ==
    /\ unit = "macd" /\ MACD_is_ready(ind)
    /\ Len(log.prices) > FirstSignal
    /\ MACD_histogram(ind) # R(0)
    /\ IsNaN(calculate_macd(log.prices, MacdFast, MacdSlow, MacdSignal).signal_line[FirstMacd])

\* ------------------------------------------------------------------------
\* The analyzer's two histories
\* ------------------------------------------------------------------------
\* C34: under any interleaving of update_kline and update_ticker the OI
\* analyzer's price history and open-interest history have the same length
\* (entry i of each recorded by the same event), so that the confirmation
\* compares the OI change and the price change over the same interval.
C34_ParallelHistories ==
    \A s \in DOMAIN symbols :
       Len(symbols[s].oi.oi_history) = Len(symbols[s].oi.price_history)

\* ------------------------------------------------------------------------
\* The statistics behind the z-score
\* ------------------------------------------------------------------------
\* sign(z) * z^2 of the latest reading against the population mean and the
\* population standard deviation (divisor n) of the trailing window
PopulationZSq(history, lookback_period) ==
    LET recent == LastN(history, lookback_period)
        n == Len(recent)
        mean == Div(SumR(recent), R(n))
        sq == [i \in 1..n |-> Mul(Sub(recent[i], mean), Sub(recent[i], mean))]
        variance == Div(SumR(sq), R(n))
        dev == Sub(Last(history), mean)
    IN IF Lt(dev, R(0)) THEN Sub(R(0), Div(Mul(dev, dev), variance))
       ELSE Div(Mul(dev, dev), variance)

\* the readings the z-score of the instance is taken over
Readings35 == IF unit = "oi" THEN ind.oi_history ELSE ind.funding_history

\* C35: with at least lookback_period readings held, not all of the window
\* equal, the z_score of OpenInterestAnalyzer and of FundingRateAnalyzer is
\* (latest - mean) / stdev with the population mean and the population
\* standard deviation (divisor n, not n - 1) of the trailing window.
C35_PopulationZScore ==
    unit \in {"oi", "funding"}
       => LET history == Readings35
              window == LastN(history, ind.lookback_period)
          IN /\ Len(history) >= ind.lookback_period
             /\ \E i \in 1..Len(window) : window[i] # window[1]
             => ZScoreSq(history, ind.lookback_period)
                   = PopulationZSq(history, ind.lookback_period)

\* ------------------------------------------------------------------------
\* Readiness over time
\* ------------------------------------------------------------------------
\* is_ready() of a stand-alone indicator of class u
IsReady(u, i) ==
    CASE u = "ema" -> EMA_is_ready(i)
      [] u = "rsi" -> RSI_is_ready(i)
      [] u = "macd" -> MACD_is_ready(i)
      [] u = "atr" -> ATR_is_ready(i)
      [] OTHER -> FALSE

\* C36: under update() calls, once is_ready() is true for an EMA, RSI, MACD
\* or ATR instance it stays true after every later update, also across the
\* trimming to the cap.
C36_ReadinessMonotone ==
    [][IsReady(unit, ind) => IsReady(unit, ind')]_vars

\* a ready indicator that has been trimmed
C36_Witness ==
    /\ unit = "macd" /\ IsReady(unit, ind)
    /\ Len(log.prices) > HistoryCap + 1
    /\ Len(ind.prices) = HistoryCap

\* ------------------------------------------------------------------------
\* The two funding extremes
\* ------------------------------------------------------------------------
\* C37: the FundingSignal returned by get_signal never has is_extreme_positive
\* and is_extreme_negative both true, so LONG_SQUEEZE is reported only when
\* no extreme-negative condition holds and SHORT_SQUEEZE whenever one holds.
C37_ExclusiveExtremes ==
    unit = "funding"
       => LET signal == Funding_get_signal(ind)
          IN /\ ~(signal.is_extreme_positive /\ signal.is_extreme_negative)
             /\ signal.squeeze_risk = "LONG_SQUEEZE" => ~signal.is_extreme_negative
             /\ signal.is_extreme_negative => signal.squeeze_risk = "SHORT_SQUEEZE"

\* ------------------------------------------------------------------------
\* What a scheduled evaluation finds
\* ------------------------------------------------------------------------
\* C38: the evaluation scheduled for a closed candle runs engine.evaluate on
\* the SymbolState as it was right after that candle's update_kline: no
\* later update_kline or update_ticker for the symbol comes in between.
C38_EvaluatesClosedCandle ==
    [][bot.running /\ bot.tasks # <<>> /\ bot'.evaluated # bot.evaluated
          => Head(bot.fresh)]_vars
====
